---- MODULE Spec2Model ----
(***************************************************************************)
(* Verification model of the stock-news dashboard's request orchestration  *)
(* layer: the rate-limited request queue and retrying fetch wrapper of     *)
(* apiService, the tiered StockCache, and the useStockData orchestrator.   *)
(*                                                                         *)
(* Each component has its own specification over the shared variables:     *)
(*   SpecQueue / LiveSpecQueue  - REQUEST_QUEUE, processQueue, queueRequest*)
(*   SpecRetry                  - fetchWithRetry                           *)
(*   SpecCache                  - the StockCache class                     *)
(*   SpecApp                    - useStockData and the App handlers        *)
(*   LiveSpecApp                - the same with fair scheduling of awaits  *)
(*   SpecSentiment              - analyzeSentiment, the aggregation        *)
(*   SpecEdge                   - the analyze-news edge function           *)
(*   SpecApi                    - the exported functions of apiService     *)
(*   SpecWatchlist              - the two variants of useWatchlist         *)
(*   SpecPrices                 - the WatchList component's fetchPrices    *)
(***************************************************************************)
EXTENDS Integers, Sequences, FiniteSets, TLC

(***************************************************************************)
(* Bounds of the model (not program constants).                            *)
(***************************************************************************)
\* number of requests the environment passes to queueRequest one by one
MaxTasks == 4
\* number of requests of the one back-to-back burst the environment may issue
BurstSize == 28
\* number of quota-pause timers that may be pending at once
MaxTimers == 2
\* milliseconds by which one clock step advances Date.now() in the queue
\* and retry models
TickMs == 500
\* largest `retries` argument fetchWithRetry is called with
MaxRetriesArg == 3
\* milliseconds by which one clock step advances Date.now() in SpecCache, and
\* the number of such steps
CacheTickMs == 300000
MaxCacheTicks == 3
\* number of direct writes to the StockCache in SpecCache
MaxCacheWrites == 2
\* number of fetchStockData calls in SpecApp
MaxCalls == 2
\* number of clock steps in SpecApp
MaxSteps == 1
\* length of the list passed to analyzeSentiment in SpecSentiment
MaxArticles == 2
\* hours that pass before that call
MaxHours == 2
\* number of articles of the request in SpecEdge
MaxEdgeArticles == 2
\* number of calls, and of clock steps of CACHE_DURATION, in SpecApi
MaxApiCalls == 2
MaxApiTicks == 1
\* number of asynchronous calls of useWatchlist, and of sign-ins and
\* sign-outs, in SpecWatchlist
MaxOps == 3
MaxAuthEvents == 2
\* number of fetchPrices runs of the WatchList component, and of the clock
\* steps between them
MaxPriceFetches == 2
MaxPriceTicks == 2

(***************************************************************************)
(* Program constants.                                                      *)
(***************************************************************************)
MAX_REQUESTS_PER_SECOND == 30
\* the window of resetRequestCount and the quota-pause delay of processQueue
WINDOW_MS == 1000
PAUSE_MS == 1000
\* defaults of fetchWithRetry
MAX_RETRIES == 3
RETRY_DELAY == 1000
\* StockCache time-to-live values (ms)
STOCK_TTL == 120000
NEWS_TTL == 600000
SENTIMENT_TTL == 600000
\* lifetime of an entry of apiService's generic cache (ms)
CACHE_DURATION == 300000

VARIABLES
  \* ---- apiService rate limiter --------------------------------------
  REQUEST_QUEUE,        \* ids of the wrapped requests waiting, head first
  requestsThisSecond,   \* counter of the current window
  lastRequestAge,       \* Date.now() - lastRequestTime, saturated at WINDOW_MS
  isProcessingQueue,    \* the module flag
  timers,               \* pending setTimeout(processQueue, 1000): ms left, oldest first
  taskState,            \* id -> "new" | "queued" | "running" | "settled"
  nSubmitted,           \* number of requests passed one by one so far
  submitLog,            \* history: ids in the order they were passed to queueRequest
  burstDone,            \* whether the environment has issued its burst
  startLog,             \* history: ids in the order their request() was called
  recentStarts,         \* history: ages (ms) of the starts younger than WINDOW_MS
  rejectSeen            \* history: 0 no request rejected, 1 some request rejected,
                        \*          2 a request was started after a rejection
VARIABLES
  \* ---- apiService fetchWithRetry (one top-level call) ----------------
  rPc,                  \* "idle" | "fetching" | "sleeping" | "resolved" | "rejected"
  rArgs,                \* [retries, delay] of the top-level call
  retries,              \* `retries` of the current (recursive) call
  delay,                \* `delay` of the current (recursive) call
  invocations,          \* history: number of fetch(url, options) calls made
  outcomes,             \* history: outcome of each fetch, in order
  sleeps,               \* history: argument of each sleep(delay), in order
  sleepLeft,            \* ms left of the sleep in progress
  rResult               \* what the top-level promise settled with

VARIABLES
  \* ---- StockCache singleton and the clock -----------------------------
  now,                  \* Date.now() of the cache and orchestrator models
  stockCache,           \* Map: upper-cased symbol -> CachedStockData
  newsCache,            \* Map: "SYMBOL_range" -> CachedNewsData
  sentimentCache,       \* Map: "SYMBOL_range" -> CachedSentimentData
  lastWrite,            \* history: per tier and key, the last direct write
  nWrites               \* history: number of direct writes so far

VARIABLES
  \* ---- apiService generic cache, useStockData, App --------------------
  anonKey,              \* whether SUPABASE_ANON_KEY is set
  cache,                \* Map: string key -> { data, timestamp }
  searchQuery,          \* App state
  timeRange,            \* App state
  loading,              \* useStockData state
  stockInfo,            \* useStockData state
  newsList,             \* useStockData state
  sentimentData,        \* useStockData state
  calls,                \* the fetchStockData calls, in the order they started
  nCalls,               \* number of fetchStockData calls started
  nSteps,               \* number of clock steps taken
  finished              \* history: the call that finished in the last step

VARIABLES
  \* ---- apiService analyzeSentiment (one call) -------------------------
  newsArg,              \* the NewsArticle[] passed
  rangeArg,             \* the timeRange passed
  sentimentResult       \* what the call resolved to, Null before it

VARIABLES
  \* ---- edge function process-news-with-gemini (one request) -----------
  geminiKey,            \* whether GEMINI_API_KEY is set
  articlesReq,          \* the articles of the request body, Null before it
  analysisPromises,     \* per article: Pending, or the value it resolved to
  edgeResponse,         \* the Response returned, Null before it
  settleOrder,          \* the indices of the articles in the order they settled
  llmAnswers            \* per article: what its generateContent exchange brought

VARIABLES
  \* ---- apiService, one exported function called at a time -------------
  apiCall               \* the call: function, arguments, position, result

VARIABLES
  \* ---- WatchList component: fetchPrices ------------------------------
  pricePending,         \* symbol -> whether its getStockPrice awaits the network
  priceReturned,        \* history: symbol -> what its last getStockPrice returned
  nPriceFetches,        \* number of fetchPrices runs so far
  nPriceTicks           \* number of clock steps taken in SpecPrices

VARIABLES
  \* ---- useWatchlist, the auth session and the watchlist table ----------
  hookVariant,          \* 0 before the hook mounts, then 1 or 2
  session,              \* the user the auth client holds a session for
  user,                 \* variant 1: the hook's user state
  watchlist,            \* the hook's watchlist state
  wlLoading,            \* the hook's loading state
  table,                \* rows of public.watchlist, newest first
  subscribedTo,         \* whose changes the realtime channel listens to
  ops,                  \* the hook's asynchronous calls
  nOps,                 \* how many of them were started
  changes,              \* row changes not yet notified: the rows' user_id
  nAuth                 \* sign-ins and sign-outs so far

qvars == <<REQUEST_QUEUE, requestsThisSecond, lastRequestAge, isProcessingQueue,
           timers, taskState, nSubmitted, submitLog, burstDone, startLog,
           recentStarts, rejectSeen>>

rvars == <<rPc, rArgs, retries, delay, invocations, outcomes, sleeps, sleepLeft,
           rResult>>

cvars == <<now, stockCache, newsCache, sentimentCache>>

gvars == <<lastWrite, nWrites>>

ovars == <<anonKey, cache, searchQuery, timeRange, loading, stockInfo, newsList,
           sentimentData, calls, nCalls, nSteps, finished>>

svars == <<newsArg, rangeArg, sentimentResult>>

evars == <<geminiKey, articlesReq, analysisPromises, edgeResponse, settleOrder,
           llmAnswers>>

pvars == <<pricePending, priceReturned, nPriceFetches, nPriceTicks>>

wvars == <<hookVariant, session, user, watchlist, wlLoading, table,
           subscribedTo, ops, nOps, changes, nAuth>>

vars == <<qvars, rvars, cvars, gvars, ovars, svars, evars, apiCall, wvars,
          pvars>>

\* the variables a component's actions leave alone
NotQueue == <<rvars, cvars, gvars, ovars, svars, evars, apiCall, wvars, pvars>>
NotRetry == <<qvars, cvars, gvars, ovars, svars, evars, apiCall, wvars, pvars>>
NotCache == <<qvars, rvars, ovars, svars, evars, apiCall, wvars, pvars>>
NotApp == <<qvars, rvars, gvars, svars, evars, apiCall, wvars, pvars>>
NotSentiment == <<qvars, rvars, gvars, ovars, evars, apiCall, wvars, pvars,
                  stockCache, newsCache, sentimentCache>>
NotEdge == <<qvars, rvars, cvars, gvars, ovars, svars, apiCall, wvars, pvars>>
NotWatchlist == <<qvars, rvars, cvars, gvars, ovars, svars, evars, apiCall, pvars>>
NotApi == <<qvars, rvars, gvars, svars, evars, wvars, pvars, newsCache, sentimentCache,
            anonKey, searchQuery, timeRange, loading, stockInfo, newsList,
            sentimentData, calls, nCalls, nSteps, finished>>

NotPrices == <<qvars, rvars, gvars, svars, evars, apiCall, wvars>>

\* ids of the requests passed one by one, in that order, and of the burst's
SingleTasks == 1 .. MaxTasks
BurstTasks == (MaxTasks + 1) .. (MaxTasks + BurstSize)
Tasks == SingleTasks \cup BurstTasks
Outcomes == {"resolved", "rejected"}

Min(a, b) == IF a < b THEN a ELSE b
Max(a, b) == IF a > b THEN a ELSE b

(***************************************************************************)
(* The rate-limited request queue.  The operators below work on a record   *)
(* of the limiter's state, so that a handler that calls another (as        *)
(* queueRequest calls processQueue) is one step.                           *)
(***************************************************************************)
QueueState ==
  [q |-> REQUEST_QUEUE, r |-> requestsThisSecond, age |-> lastRequestAge,
   ip |-> isProcessingQueue, ts |-> timers, st |-> taskState, sub |-> submitLog,
   log |-> startLog, recent |-> recentStarts, rej |-> rejectSeen]

Install(s) ==
  /\ REQUEST_QUEUE' = s.q
  /\ requestsThisSecond' = s.r
  /\ lastRequestAge' = s.age
  /\ isProcessingQueue' = s.ip
  /\ timers' = s.ts
  /\ taskState' = s.st
  /\ submitLog' = s.sub
  /\ startLog' = s.log
  /\ recentStarts' = s.recent
  /\ rejectSeen' = s.rej

\* REQUEST_QUEUE.push(wrappedRequest)
Push_front(q, t) == <<t>> \o q
Push(q, t) == Append(q, t)

\* setTimeout(processQueue, 1000) on an exhausted quota
SchedulePause_none(ts) == ts
SchedulePause(ts) == Append(ts, PAUSE_MS)

\* resetRequestCount: the counter and the window restart once a second has passed
resetRequestCount(s) ==
  IF s.age >= WINDOW_MS THEN [s EXCEPT !.r = 0, !.age = 0] ELSE s

\* request(): the shifted request t is called; it runs until it settles
StartRequest(s, t) ==
  [s EXCEPT !.st[t] = "running", !.log = Append(@, t),
            !.recent = Append(@, 0),
            !.rej = IF @ = 1 THEN 2 ELSE @]

\* processQueue, up to its await (or its return)
processQueue(s) ==
  IF Len(s.q) = 0
  THEN [s EXCEPT !.ip = FALSE]
  ELSE LET s1 == resetRequestCount([s EXCEPT !.ip = TRUE])
       IN IF s1.r >= MAX_REQUESTS_PER_SECOND
          THEN [s1 EXCEPT !.ip = FALSE, !.ts = SchedulePause(@)]
          ELSE StartRequest([s1 EXCEPT !.q = Tail(@), !.r = @ + 1], Head(s1.q))

\* processQueue after its await: the request t has settled; the finally
\* block clears the flag and calls processQueue again, whatever the outcome
\* (the wrapped request catches the rejection of requestFn and never throws)
AfterAwait(s, t, outcome) ==
  LET s1 == [s EXCEPT !.st[t] = "settled",
                      !.rej = IF outcome = "rejected" THEN Max(@, 1) ELSE @]
  IN processQueue([s1 EXCEPT !.ip = FALSE])

\* queueRequest(requestFn): push, and start processing unless the flag is set
queueRequest(s, t) ==
  LET s1 == [s EXCEPT !.sub = Append(@, t), !.st[t] = "queued", !.q = Push(@, t)]
  IN IF ~s1.ip /\ Len(s1.q) > 0 THEN processQueue(s1) ELSE s1

\* the last k requests of the burst: k calls of queueRequest on an idle
\* limiter, each request settling before the next call
RECURSIVE Burst(_, _)
Burst(s, k) ==
  IF k = 0 \/ s.ip THEN s
  ELSE LET t == MaxTasks + BurstSize - k + 1
       IN Burst(AfterAwait(queueRequest(s, t), t, "resolved"), k - 1)

\* ages of the starts after ms more milliseconds, those out of the window dropped
RECURSIVE Aged(_, _)
Aged(s, ms) ==
  IF s = <<>> THEN <<>>
  ELSE IF Head(s) + ms >= WINDOW_MS THEN Aged(Tail(s), ms)
       ELSE <<Head(s) + ms>> \o Aged(Tail(s), ms)

\* ---- actions ----------------------------------------------------------

\* A caller passes a request to queueRequest
QueueRequest ==
  /\ nSubmitted < MaxTasks
  /\ Len(timers) < MaxTimers
  /\ nSubmitted' = nSubmitted + 1
  /\ Install(queueRequest(QueueState, nSubmitted + 1))
  /\ UNCHANGED burstDone
  /\ UNCHANGED NotQueue

\* The environment issues BurstSize requests back to back while the limiter
\* is idle: that many QueueRequest and RequestSettles steps, none of which
\* finds the quota exhausted
BurstOfRequests ==
  /\ ~burstDone
  /\ burstDone' = TRUE
  /\ Len(REQUEST_QUEUE) = 0
  /\ ~isProcessingQueue
  /\ \A t \in Tasks : taskState[t] # "running"
  /\ resetRequestCount(QueueState).r + BurstSize <= MAX_REQUESTS_PER_SECOND
  /\ Install(Burst(QueueState, BurstSize))
  /\ UNCHANGED nSubmitted
  /\ UNCHANGED NotQueue

\* A quota-pause timer fires: processQueue is called whatever the flag says
TimerFires ==
  /\ Len(timers) > 0
  /\ Head(timers) = 0
  /\ Install(processQueue([QueueState EXCEPT !.ts = Tail(@)]))
  /\ UNCHANGED <<nSubmitted, burstDone>>
  /\ UNCHANGED NotQueue

\* The running request t settles and processQueue resumes after its await
RequestSettles(t, outcome) ==
  /\ taskState[t] = "running"
  /\ Install(AfterAwait(QueueState, t, outcome))
  /\ UNCHANGED <<nSubmitted, burstDone>>
  /\ UNCHANGED NotQueue

\* The clock advances by TickMs
TickQueue ==
  /\ lastRequestAge' = Min(lastRequestAge + TickMs, WINDOW_MS)
  /\ timers' = [i \in 1 .. Len(timers) |-> Max(timers[i] - TickMs, 0)]
  /\ recentStarts' = Aged(recentStarts, TickMs)
  /\ UNCHANGED <<REQUEST_QUEUE, requestsThisSecond, isProcessingQueue,
                 taskState, nSubmitted, submitLog, burstDone, startLog,
                 rejectSeen>>
  /\ UNCHANGED NotQueue

InitQueue ==
  /\ REQUEST_QUEUE = <<>>
  /\ requestsThisSecond = 0
  /\ lastRequestAge = 0
  /\ isProcessingQueue = FALSE
  /\ timers = <<>>
  /\ taskState = [t \in Tasks |-> "new"]
  /\ nSubmitted = 0
  /\ submitLog = <<>>
  /\ burstDone = FALSE
  /\ startLog = <<>>
  /\ recentStarts = <<>>
  /\ rejectSeen = 0

NextQueue ==
  \/ QueueRequest
  \/ BurstOfRequests
  \/ TimerFires
  \/ \E t \in Tasks, outcome \in Outcomes : RequestSettles(t, outcome)
  \/ TickQueue

\* While a request is running some request settles, a due timer fires, time passes.
FairQueue ==
  /\ WF_vars(TickQueue)
  /\ WF_vars(TimerFires)
  /\ WF_vars(\E t \in Tasks, outcome \in Outcomes : RequestSettles(t, outcome))

(***************************************************************************)
(* fetchWithRetry.                                                         *)
(***************************************************************************)
\* what one fetch(url, options) of the target can come to:
\*   "network_error" fetch rejects;  "not_ok" a response with ok = false;
\*   "ok" an ok response whose body parses;  "ok_bad_body" an ok response
\*   whose response.json() rejects
FetchOutcomes == {"network_error", "not_ok", "ok", "ok_bad_body"}
\* the outcomes the try block throws on, which the catch block handles
Failures == {"network_error", "not_ok"}

RetriesArgs == 0 .. MaxRetriesArg
DelayArgs == {RETRY_DELAY \div 2, RETRY_DELAY}

\* if (retries === 0) throw
Exhausted_early(n) == n <= 1
Exhausted(n) == n = 0

\* fetchWithRetry(url, options, retries - 1, delay * 2)
NextDelay_same(d) == d
NextDelay(d) == d * 2
NextRetries(n) == n - 1

InitRetry ==
  /\ rPc = "idle"
  /\ rArgs = [retries |-> MAX_RETRIES, delay |-> RETRY_DELAY]
  /\ retries = MAX_RETRIES
  /\ delay = RETRY_DELAY
  /\ invocations = 0
  /\ outcomes = <<>>
  /\ sleeps = <<>>
  /\ sleepLeft = 0
  /\ rResult = [kind |-> "pending"]

\* fetchWithRetry(url, options, r, d) is called: the first fetch is issued
CallFetchWithRetry(r, d) ==
  /\ rPc = "idle"
  /\ rPc' = "fetching"
  /\ rArgs' = [retries |-> r, delay |-> d]
  /\ retries' = r
  /\ delay' = d
  /\ invocations' = invocations + 1
  /\ UNCHANGED <<outcomes, sleeps, sleepLeft, rResult>>
  /\ UNCHANGED NotRetry

\* The fetch in flight comes to `o`: the rest of the try block, and the
\* catch block up to its await of sleep(delay)
FetchReturns(o) ==
  /\ rPc = "fetching"
  /\ outcomes' = Append(outcomes, o)
  /\ IF o = "ok"
     THEN \* return response.json()
          /\ rPc' = "resolved"
          /\ rResult' = [kind |-> "value", attempt |-> Len(outcomes) + 1]
          /\ UNCHANGED <<sleeps, sleepLeft>>
     ELSE IF o = "ok_bad_body"
     THEN \* the promise of response.json() is returned, not awaited: its
          \* rejection is the call's, and the catch block does not see it
          /\ rPc' = "rejected"
          /\ rResult' = [kind |-> "error", attempt |-> Len(outcomes) + 1, cause |-> o]
          /\ UNCHANGED <<sleeps, sleepLeft>>
     ELSE IF Exhausted(retries)
     THEN /\ rPc' = "rejected"
          /\ rResult' = [kind |-> "error", attempt |-> Len(outcomes) + 1, cause |-> o]
          /\ UNCHANGED <<sleeps, sleepLeft>>
     ELSE /\ rPc' = "sleeping"
          /\ sleeps' = Append(sleeps, delay)
          /\ sleepLeft' = delay
          /\ UNCHANGED rResult
  /\ UNCHANGED <<rArgs, retries, delay, invocations>>
  /\ UNCHANGED NotRetry

\* The sleep is over: the recursive call issues the next fetch
SleepEnds ==
  /\ rPc = "sleeping"
  /\ sleepLeft = 0
  /\ rPc' = "fetching"
  /\ retries' = NextRetries(retries)
  /\ delay' = NextDelay(delay)
  /\ invocations' = invocations + 1
  /\ UNCHANGED <<rArgs, outcomes, sleeps, sleepLeft, rResult>>
  /\ UNCHANGED NotRetry

\* The clock advances by TickMs during a sleep
TickRetry ==
  /\ rPc = "sleeping"
  /\ sleepLeft > 0
  /\ sleepLeft' = Max(sleepLeft - TickMs, 0)
  /\ UNCHANGED <<rPc, rArgs, retries, delay, invocations, outcomes, sleeps, rResult>>
  /\ UNCHANGED NotRetry

NextRetry ==
  \/ \E r \in RetriesArgs, d \in DelayArgs : CallFetchWithRetry(r, d)
  \/ \E o \in FetchOutcomes : FetchReturns(o)
  \/ SleepEnds
  \/ TickRetry

(***************************************************************************)
(* StockCache (services/stockCache.ts).  Strings are sequences of          *)
(* characters, so that toUpperCase and the key template are computed; a    *)
(* Map is a function whose domain is the set of keys present.  Every value *)
(* is a record, null included, so that any two can be compared.            *)
(***************************************************************************)
Null == [kind |-> "null"]

EmptyMap == [k \in {} |-> Null]
Has(m, k) == k \in DOMAIN m
MapSet(m, k, v) == [x \in DOMAIN m \cup {k} |-> IF x = k THEN v ELSE m[x]]
MapDelete(m, k) == [x \in DOMAIN m \ {k} |-> m[x]]

toUpperCaseChar(c) == CASE c = "a" -> "A" [] c = "b" -> "B" [] OTHER -> c
toUpperCase(s) == [i \in 1 .. Len(s) |-> toUpperCaseChar(s[i])]

\* `${symbol.toUpperCase()}_${timeRange}`
TierKey(symbol, range) == toUpperCase(symbol) \o <<"_">> \o range

\* ttl || this.STOCK_TTL: an omitted ttl and a ttl of 0 are both falsy
TtlOrDefault(ttl) == IF ttl = 0 THEN STOCK_TTL ELSE ttl

IsExpired_atTtl(t, cached) == (t - cached.cachedAt) >= cached.ttl
IsExpired(t, cached) == (t - cached.cachedAt) > cached.ttl

\* the nine fields of a StockInfo
StockInfo(symbol, name, price, change, changePercent, exchange, industry, previousClose, marketCap) ==
  [symbol |-> symbol, name |-> name, price |-> price,
   change |-> change, changePercent |-> changePercent, exchange |-> exchange,
   industry |-> industry, previousClose |-> previousClose,
   marketCap |-> marketCap]

\* a NewsArticle[] and the articles in it
NewsList(items) == [kind |-> "list", items |-> items]

\* set(symbol, stockData, ttl) at time t: the stockCache map afterwards; the
\* entry is { ...stockData, cachedAt, ttl }
set(m, symbol, stockData, ttl, t) ==
  MapSet(m, toUpperCase(symbol),
         [symbol |-> stockData.symbol, name |-> stockData.name,
          price |-> stockData.price, change |-> stockData.change,
          changePercent |-> stockData.changePercent,
          exchange |-> stockData.exchange, industry |-> stockData.industry,
          previousClose |-> stockData.previousClose,
          marketCap |-> stockData.marketCap,
          cachedAt |-> t, ttl |-> TtlOrDefault(ttl)])

\* get(symbol) at time t: the value returned and the stockCache map afterwards
get(m, symbol, t) ==
  LET key == toUpperCase(symbol)
  IN IF ~Has(m, key) THEN [value |-> Null, map |-> m]
     ELSE IF IsExpired(t, m[key])
          THEN [value |-> Null, map |-> MapDelete(m, key)]
          ELSE LET cached == m[key]
               IN [value |-> StockInfo(cached.symbol, cached.name, cached.price,
                                       cached.change, cached.changePercent,
                                       cached.exchange, cached.industry,
                                       cached.previousClose, cached.marketCap),
                   map |-> m]

setNews(m, symbol, range, newsData, t) ==
  MapSet(m, TierKey(symbol, range),
         [data |-> newsData, cachedAt |-> t, ttl |-> NEWS_TTL])

getNews(m, symbol, range, t) ==
  LET key == TierKey(symbol, range)
  IN IF ~Has(m, key) THEN [value |-> Null, map |-> m]
     ELSE IF IsExpired(t, m[key])
          THEN [value |-> Null, map |-> MapDelete(m, key)]
          ELSE [value |-> m[key].data, map |-> m]

setSentiment(m, symbol, range, sentiment, t) ==
  MapSet(m, TierKey(symbol, range),
         [data |-> sentiment, cachedAt |-> t, ttl |-> SENTIMENT_TTL])

getSentiment(m, symbol, range, t) ==
  LET key == TierKey(symbol, range)
  IN IF ~Has(m, key) THEN [value |-> Null, map |-> m]
     ELSE IF IsExpired(t, m[key])
          THEN [value |-> Null, map |-> MapDelete(m, key)]
          ELSE [value |-> m[key].data, map |-> m]

\* clear(): each of the three maps afterwards
clear(m) == EmptyMap

(***************************************************************************)
(* The StockCache driven directly: any caller, any argument.  A read that  *)
(* removes nothing leaves every variable as it is, which is a stuttering   *)
(* step, so the read steps written out are the ones that remove an entry.  *)
(***************************************************************************)
Symbols == {<<"a">>, <<"A">>, <<"b">>}
TimeRanges == {<<"2", "4", "h">>, <<"7", "d">>}
TtlArgs == {0, 300000}
\* the payload of the n-th write: each write carries a payload of its own
StockInfoNo(n) ==
  StockInfo(<<"a">>, <<"A", "c", "m", "e">>, 100 + n, n, n, "NASDAQ",
            "Technology", 100, 5000000)
NewsListNo(n) == NewsList([i \in 1 .. (n - 1) |-> [id |-> i]])
SentimentDataNo(n) == [kind |-> "sentiment", overall |-> n]

\* the claim's notion of a key: the symbol up to letter case, and the range
FoldChar(c) == CASE c = "A" -> "a" [] c = "B" -> "b" [] OTHER -> c
Fold(s) == [i \in 1 .. Len(s) |-> FoldChar(s[i])]
FoldedSymbols == {Fold(s) : s \in Symbols}
NoWrite == [written |-> FALSE]
Written(data, t, ttl) == [written |-> TRUE, data |-> data, at |-> t, ttl |-> ttl]

InitCache ==
  /\ now = 0
  /\ stockCache = EmptyMap
  /\ newsCache = EmptyMap
  /\ sentimentCache = EmptyMap
  /\ lastWrite = [quote |-> [k \in FoldedSymbols |-> NoWrite],
                  news |-> [k \in FoldedSymbols \X TimeRanges |-> NoWrite],
                  sentiment |-> [k \in FoldedSymbols \X TimeRanges |-> NoWrite]]
  /\ nWrites = 0

CacheSet(symbol, ttl) ==
  /\ nWrites < MaxCacheWrites
  /\ nWrites' = nWrites + 1
  /\ stockCache' = set(stockCache, symbol, StockInfoNo(nWrites + 1), ttl, now)
  /\ lastWrite' = [lastWrite EXCEPT !.quote[Fold(symbol)] =
                     Written(StockInfoNo(nWrites + 1), now,
                             IF ttl = 0 THEN STOCK_TTL ELSE ttl)]
  /\ UNCHANGED <<now, newsCache, sentimentCache>>
  /\ UNCHANGED NotCache

CacheGet(symbol) ==
  /\ get(stockCache, symbol, now).map # stockCache
  /\ stockCache' = get(stockCache, symbol, now).map
  /\ UNCHANGED <<now, newsCache, sentimentCache, lastWrite, nWrites>>
  /\ UNCHANGED NotCache

CacheSetNews(symbol, range) ==
  /\ nWrites < MaxCacheWrites
  /\ nWrites' = nWrites + 1
  /\ newsCache' = setNews(newsCache, symbol, range,
                          NewsListNo(nWrites + 1), now)
  /\ lastWrite' = [lastWrite EXCEPT !.news[<<Fold(symbol), range>>] =
                     Written(NewsListNo(nWrites + 1), now, NEWS_TTL)]
  /\ UNCHANGED <<now, stockCache, sentimentCache>>
  /\ UNCHANGED NotCache

CacheGetNews(symbol, range) ==
  /\ getNews(newsCache, symbol, range, now).map # newsCache
  /\ newsCache' = getNews(newsCache, symbol, range, now).map
  /\ UNCHANGED <<now, stockCache, sentimentCache, lastWrite, nWrites>>
  /\ UNCHANGED NotCache

CacheSetSentiment(symbol, range) ==
  /\ nWrites < MaxCacheWrites
  /\ nWrites' = nWrites + 1
  /\ sentimentCache' = setSentiment(sentimentCache, symbol, range,
                                    SentimentDataNo(nWrites + 1), now)
  /\ lastWrite' = [lastWrite EXCEPT !.sentiment[<<Fold(symbol), range>>] =
                     Written(SentimentDataNo(nWrites + 1), now, SENTIMENT_TTL)]
  /\ UNCHANGED <<now, stockCache, newsCache>>
  /\ UNCHANGED NotCache

CacheGetSentiment(symbol, range) ==
  /\ getSentiment(sentimentCache, symbol, range, now).map # sentimentCache
  /\ sentimentCache' = getSentiment(sentimentCache, symbol, range, now).map
  /\ UNCHANGED <<now, stockCache, newsCache, lastWrite, nWrites>>
  /\ UNCHANGED NotCache

CacheClear ==
  /\ stockCache' = clear(stockCache)
  /\ newsCache' = clear(newsCache)
  /\ sentimentCache' = clear(sentimentCache)
  /\ lastWrite' = [quote |-> [k \in FoldedSymbols |-> NoWrite],
                   news |-> [k \in FoldedSymbols \X TimeRanges |-> NoWrite],
                   sentiment |-> [k \in FoldedSymbols \X TimeRanges |-> NoWrite]]
  /\ UNCHANGED <<now, nWrites>>
  /\ UNCHANGED NotCache

TickCache ==
  /\ now < MaxCacheTicks * CacheTickMs
  /\ now' = now + CacheTickMs
  /\ UNCHANGED <<stockCache, newsCache, sentimentCache, lastWrite, nWrites>>
  /\ UNCHANGED NotCache

NextCache ==
  \/ (\E symbol \in Symbols, ttl \in TtlArgs : CacheSet(symbol, ttl))
  \/ (\E symbol \in Symbols : CacheGet(symbol))
  \/ (\E symbol \in Symbols, range \in TimeRanges :
        CacheSetNews(symbol, range))
  \/ (\E symbol \in Symbols, range \in TimeRanges :
        CacheGetNews(symbol, range))
  \/ (\E symbol \in Symbols, range \in TimeRanges :
        CacheSetSentiment(symbol, range))
  \/ (\E symbol \in Symbols, range \in TimeRanges :
        CacheGetSentiment(symbol, range))
  \/ CacheClear
  \/ TickCache

(***************************************************************************)
(* apiService's generic cache and its cached fetchers, the useStockData    *)
(* hook and the App handlers.  A network exchange (queueRequest around     *)
(* fetchWithRetry, retries included) is one pending step that settles with *)
(* one of its outcomes.  A step is one macrotask: a handler, or the        *)
(* continuation after a network exchange, run up to the next network       *)
(* exchange; awaits of promises that are already settled do not end it.    *)
(***************************************************************************)
PriceKey(symbol) == <<"price_profile_">> \o symbol
RawNewsKey(symbol, range) == <<"raw_news_">> \o symbol \o <<"_">> \o range
SentimentKey(symbol, range) == <<"sentiment_">> \o symbol \o <<"_">> \o range

getCachedData(m, key, t) ==
  IF Has(m, key) /\ t - m[key].timestamp < CACHE_DURATION THEN m[key].data
  ELSE Null

setCachedData(m, key, data, t) == MapSet(m, key, [data |-> data, timestamp |-> t])

\* a number | null field that is null
NullNumber == -1

\* what the market-data proxy answers at time t: the price moves with the
\* clock, so a quote tells when it was obtained
QuoteBody(t) == [c |-> 100 + t \div 60000, d |-> 1, dp |-> 1, pc |-> 99]
ProfileBody(symbol) ==
  [kind |-> "profile", name |-> symbol \o <<"Inc">>, exchange |-> "NASDAQ",
   finnhubIndustry |-> "Technology", marketCapitalization |-> 5]
EmptyObject == [kind |-> "object"]

\* the stockInfo getStockPrice builds from a quote and a profile
StockInfoOf(symbol, quote, profile) ==
  LET known == profile.kind = "profile"
  IN StockInfo(symbol,
               IF known THEN profile.name ELSE symbol,
               quote.c, quote.d, quote.dp,
               IF known THEN profile.exchange ELSE "",
               IF known THEN profile.finnhubIndustry ELSE "",
               quote.pc,
               IF known THEN profile.marketCapitalization * 1000000
               ELSE NullNumber)

DefaultStockInfo(symbol) ==
  StockInfo(symbol, symbol, 0, 0, 0, "", "", 0, NullNumber)

QuoteOutcomes == {"ok", "profile_failed", "quote_failed"}
NewsOutcomes == {"articles", "no_articles", "failed"}
AnalysisOutcomes == {"analysed", "failed", "null_body", "object_body"}

\* the filtered, sorted raw articles of a company-news response; publishedAt
\* is in hours
RawArticles ==
  NewsList(<<[id |-> 1, publishedAt |-> 0], [id |-> 2, publishedAt |-> 0]>>)

\* the LLM-analysis proxy's answer for a list, and the per-article defaults;
\* scores are in hundredths
Analysed(articles) ==
  NewsList([i \in DOMAIN articles.items |->
              [id |-> articles.items[i].id,
               publishedAt |-> articles.items[i].publishedAt,
               financialSentimentCategory |-> IF i = 1 THEN "bullish" ELSE "bearish",
               sentimentScore |-> IF i = 1 THEN 80 ELSE -20,
               relevanceToPrice |-> "high"]])
NeutralDefaults(articles) ==
  NewsList([i \in DOMAIN articles.items |->
              [id |-> articles.items[i].id,
               publishedAt |-> articles.items[i].publishedAt,
               financialSentimentCategory |-> "neutral-impact",
               sentimentScore |-> 0,
               relevanceToPrice |-> "low"]])

(***************************************************************************)
(* analyzeSentiment's arithmetic.  A quotient is kept as the pair of its   *)
(* operands, so that no division rounds.                                   *)
\* a handler computes each of its values once: body(value), with value computed
\* once however often body uses it
Once(value, body(_)) == CHOOSE result \in {body(v) : v \in {value}} : TRUE

(***************************************************************************)
Ratio(num, den) == [num |-> num, den |-> den]
\* a / b = c / d, for positive denominators
RatioEq(r, q) == r.num * q.den = q.num * r.den
RatioLeq(r, q) == r.num * q.den <= q.num * r.den

Range24h == <<"2", "4", "h">>
MS_PER_HOUR == 3600000
\* the browser's zone, in hours ahead of UTC
UtcOffset == 0

RECURSIVE SumScores(_)
SumScores(items) ==
  IF Len(items) = 0 THEN 0 ELSE Head(items).sentimentScore + SumScores(Tail(items))

\* news.filter(category in categories).length / news.length
Share(items, categories) ==
  Ratio(Cardinality({i \in DOMAIN items :
                       items[i].financialSentimentCategory \in categories}),
        Len(items))

\* reduce(sum) / length
Mean_ofFirst(items) == Ratio(Head(items).sentimentScore, 1)
Mean(items) == Ratio(SumScores(items), Len(items))

\* Date.getHours(): the hour of the day in the local zone, offset hours
\* ahead of UTC
getHours(t, offset) == (t + offset) % 24

\* the start of the period an article is grouped into (lines 528-547): the
\* 3-hour boundary of the local clock at or before t, less three hours for
\* every three whole hours of the article's age, or the article's local day
PeriodStart_daily(article, range, t, offset) ==
  IF range = Range24h
  THEN LET hoursPerGroup == 24
           hoursAgo == t - article.publishedAt
           groupIndex == hoursAgo \div hoursPerGroup
       IN t - (getHours(t, offset) % hoursPerGroup) - groupIndex * hoursPerGroup
  ELSE article.publishedAt - getHours(article.publishedAt, offset)
PeriodStart(article, range, t, offset) ==
  IF range = Range24h
  THEN LET hoursPerGroup == 3
           hoursAgo == t - article.publishedAt
           groupIndex == hoursAgo \div hoursPerGroup
       IN t - (getHours(t, offset) % hoursPerGroup) - groupIndex * hoursPerGroup
  ELSE article.publishedAt - getHours(article.publishedAt, offset)

\* lines 549-554: the article joins the group of its key, a new key opening a
\* group after the ones the Map already holds
AddToGroup(groups, key, article) ==
  IF \E k \in DOMAIN groups : groups[k].time = key
  THEN [k \in DOMAIN groups |->
          IF groups[k].time = key
          THEN [groups[k] EXCEPT !.articles = Append(@, article)]
          ELSE groups[k]]
  ELSE Append(groups, [time |-> key, articles |-> <<article>>])

\* news.forEach (lines 528-555) over the first n articles: the entries of
\* timeGroups in insertion order
RECURSIVE timeGroups(_, _, _, _, _)
timeGroups(items, n, range, t, offset) ==
  IF n = 0 THEN <<>>
  ELSE AddToGroup(timeGroups(items, n - 1, range, t, offset),
                  PeriodStart(items[n], range, t, offset), items[n])

\* .sort(([a], [b]) => time(a) - time(b)) (line 558), a stable sort
RECURSIVE SortByTime(_)
SortByTime_asInserted(groups) == groups
SortByTime(groups) ==
  IF Len(groups) = 0 THEN <<>>
  ELSE LET last == groups[Len(groups)]
           sorted == SortByTime(SubSeq(groups, 1, Len(groups) - 1))
           k == Cardinality({i \in DOMAIN sorted : sorted[i].time <= last.time})
       IN SubSeq(sorted, 1, k) \o <<last>> \o SubSeq(sorted, k + 1, Len(sorted))

\* lines 560-566: the point pushed for one group
TrendPoint(group) ==
  [time |-> group.time,
   sentiment |-> Ratio(SumScores(group.articles),
                       IF Len(group.articles) > 1 THEN Len(group.articles) ELSE 1),
   articles |-> Len(group.articles)]

\* lines 520-566
TrendData(items, range, t, offset) ==
  Once(SortByTime(timeGroups(items, Len(items), range, t, offset)),
       LAMBDA sorted : [k \in DOMAIN sorted |-> TrendPoint(sorted[k])])

\* generateStructuredNewsSummary's description of the mean score
Description(items, overall) ==
  IF RatioLeq(Ratio(50, 1), overall) /\ ~RatioEq(Ratio(50, 1), overall)
  THEN "decidedly bullish"
  ELSE IF RatioLeq(Ratio(15, 1), overall) /\ ~RatioEq(Ratio(15, 1), overall)
  THEN "leaning bullish"
  ELSE IF RatioLeq(overall, Ratio(-50, 1)) /\ ~RatioEq(overall, Ratio(-50, 1))
  THEN "decidedly bearish"
  ELSE IF RatioLeq(overall, Ratio(-15, 1)) /\ ~RatioEq(overall, Ratio(-15, 1))
  THEN "leaning bearish"
  ELSE IF \E i \in DOMAIN items : items[i].financialSentimentCategory = "mixed"
  THEN "mixed"
  ELSE "neutral"

Abs(n) == IF n < 0 THEN -n ELSE n

\* the index that a stable sort by descending key puts first among idx
First(idx, key(_)) ==
  CHOOSE i \in idx : \A j \in idx : key(j) < key(i) \/ (key(j) = key(i) /\ i <= j)

KeyFactor(type, prefix, article) ==
  [type |-> type, prefix |-> prefix, id |-> article.id,
   score |-> article.sentimentScore]

FactorType(article) ==
  IF article.financialSentimentCategory = "bullish" THEN "positive"
  ELSE IF article.financialSentimentCategory = "bearish" THEN "negative"
  ELSE "neutral"

\* lines 609-635: the strongest bullish and the strongest bearish article,
\* each if beyond 0.3
StrongDrivers(items) ==
  LET bullish == {i \in DOMAIN items : items[i].financialSentimentCategory = "bullish"}
      bearish == {i \in DOMAIN items : items[i].financialSentimentCategory = "bearish"}
  IN (IF bullish # {} /\ items[First(bullish, LAMBDA i : items[i].sentimentScore)].sentimentScore > 30
      THEN <<KeyFactor("positive", "(+)",
                       items[First(bullish, LAMBDA i : items[i].sentimentScore)])>>
      ELSE <<>>)
     \o
     (IF bearish # {} /\ items[First(bearish, LAMBDA i : -items[i].sentimentScore)].sentimentScore < -30
      THEN <<KeyFactor("negative", "(-)",
                       items[First(bearish, LAMBDA i : -items[i].sentimentScore)])>>
      ELSE <<>>)

\* lines 638-670: without a strong driver, the one or two articles of the
\* largest absolute score beyond 0.1, else the placeholder
FallbackFactors(items) ==
  LET mostImpactful == First(DOMAIN items, LAMBDA i : Abs(items[i].sentimentScore))
      secondMostImpactful ==
        First(DOMAIN items \ {mostImpactful}, LAMBDA i : Abs(items[i].sentimentScore))
      mention ==
        IF Abs(items[mostImpactful].sentimentScore) > 10
        THEN <<KeyFactor(FactorType(items[mostImpactful]), "Key Mention:",
                         items[mostImpactful])>>
        ELSE <<>>
      noted ==
        IF Len(items) > 1 /\ Len(mention) < 2
           /\ Abs(items[secondMostImpactful].sentimentScore) > 10
        THEN <<KeyFactor(FactorType(items[secondMostImpactful]), "Also Noted:",
                         items[secondMostImpactful])>>
        ELSE <<>>
      info == <<[type |-> "neutral", prefix |-> "Info:", id |-> 0, score |-> 0]>>
  IN IF Len(mention \o noted) > 0 THEN mention \o noted ELSE info

\* lines 605-670
KeyFactors_keepsAdding(items) == StrongDrivers(items) \o FallbackFactors(items)
KeyFactors(items) ==
  IF Len(StrongDrivers(items)) > 0 THEN StrongDrivers(items)
  ELSE FallbackFactors(items)

generateStructuredNewsSummary(symbol, items, overall) ==
  IF Len(items) = 0
  THEN [overallSentimentText |-> <<"No recent news available for">> \o symbol,
        keyFactors |-> <<>>, hasContent |-> FALSE]
  ELSE [overallSentimentText |->
          <<"Overall sentiment for">> \o symbol \o <<"is", Description(items, overall)>>,
        keyFactors |-> KeyFactors(items), hasContent |-> TRUE]

\* lines 491-509: the result for an empty list
EmptySentiment_neutralZero(symbol) ==
  [overall |-> Ratio(0, 1), positive |-> Ratio(0, 1),
   negative |-> Ratio(0, 1), neutral |-> Ratio(0, 1),
   trendData |-> <<>>,
   summary |-> <<"No news available for">> \o symbol,
   structuredSummary |->
     [overallSentimentText |-> <<"No news available for">> \o symbol,
      keyFactors |-> <<>>, hasContent |-> FALSE]]
EmptySentiment(symbol) ==
  [overall |-> Ratio(0, 1), positive |-> Ratio(0, 1),
   negative |-> Ratio(0, 1), neutral |-> Ratio(1, 1),
   trendData |-> <<>>,
   summary |-> <<"No news available for">> \o symbol,
   structuredSummary |->
     [overallSentimentText |-> <<"No news available for">> \o symbol,
      keyFactors |-> <<>>, hasContent |-> FALSE]]

\* analyzeSentiment's result for a NewsArticle[] (lines 491-581), at hour t
\* in a zone offset hours ahead of UTC
Aggregate(symbol, news, range, t, offset) ==
  Once(news.items, LAMBDA items : (
  IF Len(items) = 0
  THEN EmptySentiment(symbol)
  ELSE LET overallSentiment == Mean(items)
           structuredSummaryData ==
             generateStructuredNewsSummary(symbol, items, overallSentiment)
       IN [overall |-> overallSentiment,
           positive |-> Share(items, {"bullish"}),
           negative |-> Share(items, {"bearish"}),
           neutral |-> Share(items, {"neutral-impact", "mixed"}),
           trendData |-> TrendData(items, range, t, offset),
           summary |-> structuredSummaryData.overallSentimentText,
           structuredSummary |-> structuredSummaryData]))

\* analyzeSentiment's result at the present clock value
AggregateNow(symbol, news, range) ==
  Aggregate(symbol, news, range, now \div MS_PER_HOUR, UtcOffset)

\* useStockData lines 65-79
noNewsResult_hasContent(symbol) ==
  [overall |-> Ratio(0, 1), positive |-> Ratio(0, 1), negative |-> Ratio(0, 1),
   neutral |-> Ratio(1, 1),
   summary |-> <<"No news found for">> \o symbol,
   trendData |-> <<>>,
   structuredSummary |->
     [overallSentimentText |-> <<"No news found for">> \o symbol,
      keyFactors |-> <<>>, hasContent |-> TRUE]]
noNewsResult(symbol) ==
  [overall |-> Ratio(0, 1), positive |-> Ratio(0, 1), negative |-> Ratio(0, 1),
   neutral |-> Ratio(1, 1),
   summary |-> <<"No news found for">> \o symbol,
   trendData |-> <<>>,
   structuredSummary |->
     [overallSentimentText |-> <<"No news found for">> \o symbol,
      keyFactors |-> <<>>, hasContent |-> FALSE]]

(***************************************************************************)
(* The state the handlers work on, as one record.                          *)
(***************************************************************************)
\* a fetchStockData call: where it waits, its arguments and locals, and the
\* history of what it did; once finished, only pc, symbol and timeRange stay
NoCall ==
  [pc |-> "idle", symbol |-> <<>>, timeRange |-> <<>>, rawNews |-> Null,
   rawCount |-> NullNumber,
   origin |-> "none", quoteFrom |-> "none", newsFrom |-> "none",
   path |-> "none", newsFetches |-> 0, analysisCalls |-> 0,
   sawNews |-> FALSE, sawSentiment |-> FALSE, threw |-> FALSE]

Done(call) ==
  [NoCall EXCEPT !.pc = "done", !.symbol = call.symbol,
                 !.timeRange = call.timeRange]


\* at the start of a step no call has finished in it
World ==
  [now |-> now, stockCache |-> stockCache, newsCache |-> newsCache,
   sentimentCache |-> sentimentCache, cache |-> cache, loading |-> loading,
   stockInfo |-> stockInfo, newsList |-> newsList,
   sentimentData |-> sentimentData, calls |-> calls, finished |-> NoCall]

InstallWorld(world) ==
  \E w \in {world} :
  /\ stockCache' = w.stockCache
  /\ newsCache' = w.newsCache
  /\ sentimentCache' = w.sentimentCache
  /\ cache' = w.cache
  /\ loading' = w.loading
  /\ stockInfo' = w.stockInfo
  /\ newsList' = w.newsList
  /\ sentimentData' = w.sentimentData
  /\ calls' = w.calls
  /\ finished' = w.finished

CallIds == 1 .. MaxCalls

(***************************************************************************)
(* getStockPrice.                                                          *)
(***************************************************************************)
\* up to the network exchange: the state afterwards, whether the promise is
\* settled already, its value, and where the value came from
getStockPrice(world, symbol) ==
  Once(world, LAMBDA w : (
  IF ~anonKey
  THEN [w |-> w, settled |-> TRUE, value |-> DefaultStockInfo(symbol),
        from |-> "nokey"]
  ELSE LET r == get(w.stockCache, symbol, w.now)
           w1 == [w EXCEPT !.stockCache = r.map]
           g == getCachedData(w.cache, PriceKey(symbol), w.now)
       IN IF r.value # Null
          THEN [w |-> w1, settled |-> TRUE, value |-> r.value, from |-> "tier"]
          ELSE IF g # Null
               THEN LET si == StockInfoOf(symbol, g.quote, g.profile)
                    IN [w |-> [w1 EXCEPT !.stockCache =
                                 set(@, symbol, si, 0, w.now)],
                        settled |-> TRUE, value |-> si, from |-> "generic"]
               ELSE [w |-> w1, settled |-> FALSE, value |-> Null,
                     from |-> "network"]))

\* try { ... } catch { return caught }: what the async function settles to,
\* from the outcome of its try block
Threw == [threw |-> TRUE]
Returned(result) == [threw |-> FALSE, result |-> result]
TryCatch_rethrows(attempt, caught) ==
  Once(attempt, LAMBDA a :
    IF a.threw THEN [caught EXCEPT !.rejected = TRUE] ELSE a.result)
TryCatch(attempt, caught) ==
  Once(attempt, LAMBDA a : IF a.threw THEN caught ELSE a.result)

\* from the settling of Promise.all([quote, profile]) on
getStockPriceSettled(world, symbol, outcome) ==
  Once(world, LAMBDA w : (
  TryCatch(
    IF outcome = "quote_failed"
    THEN Threw
    ELSE LET quote == QuoteBody(w.now)
             profile == IF outcome = "ok" THEN ProfileBody(symbol) ELSE EmptyObject
             si == StockInfoOf(symbol, quote, profile)
         IN Returned(
              [w |-> [w EXCEPT
                        !.cache = setCachedData(@, PriceKey(symbol),
                                                [quote |-> quote, profile |-> profile],
                                                w.now),
                        !.stockCache = set(@, symbol, si, 0, w.now)],
               value |-> si, from |-> "network", rejected |-> FALSE]),
    [w |-> w, value |-> DefaultStockInfo(symbol), from |-> "failed",
     rejected |-> FALSE])))

(***************************************************************************)
(* getNewsArticles and analyzeNewsWithGemini.                              *)
(***************************************************************************)
getNewsArticles(w, symbol, range) ==
  IF ~anonKey
  THEN [settled |-> TRUE, value |-> NewsList(<<>>), from |-> "nokey"]
  ELSE LET cached == getCachedData(w.cache, RawNewsKey(symbol, range), w.now)
       IN IF cached # Null
          THEN [settled |-> TRUE, value |-> cached, from |-> "generic"]
          ELSE [settled |-> FALSE, value |-> Null, from |-> "network"]

getNewsArticlesSettled(world, symbol, range, outcome) ==
  Once(world, LAMBDA w : (
  TryCatch(
    IF outcome = "failed"
    THEN Threw
    ELSE LET filteredArticles ==
               IF outcome = "articles" THEN RawArticles ELSE NewsList(<<>>)
         IN Returned(
              [w |-> [w EXCEPT !.cache =
                        setCachedData(@, RawNewsKey(symbol, range),
                                      filteredArticles, w.now)],
               value |-> filteredArticles, from |-> "network",
               rejected |-> FALSE]),
    [w |-> w, value |-> NewsList(<<>>), from |-> "failed", rejected |-> FALSE])))

analyzeNewsWithGemini(articles) ==
  IF ~anonKey THEN [settled |-> TRUE, value |-> NeutralDefaults(articles)]
  ELSE IF Len(articles.items) = 0
       THEN [settled |-> TRUE, value |-> NewsList(<<>>)]
       ELSE [settled |-> FALSE, value |-> Null]

\* a null body makes line 471 throw inside the try, so the catch answers; any
\* other body is returned as it is
analyzeNewsWithGeminiSettled(articles, outcome) ==
  TryCatch(
    CASE outcome = "analysed" ->
           Returned([value |-> Analysed(articles), rejected |-> FALSE])
      [] outcome = "failed" -> Threw
      [] outcome = "null_body" -> Threw
      [] outcome = "object_body" ->
           Returned([value |-> EmptyObject, rejected |-> FALSE]),
    [value |-> NeutralDefaults(articles), rejected |-> FALSE])

\* analyzeSentiment: a value, or a TypeError when news is not an array
analyzeSentiment(w, symbol, news, range) ==
  LET cached == getCachedData(w.cache, SentimentKey(symbol, range), w.now)
  IN IF cached # Null THEN [threw |-> FALSE, value |-> cached]
     ELSE IF news.kind # "list" THEN [threw |-> TRUE, value |-> Null]
          ELSE [threw |-> FALSE,
                value |-> Aggregate(symbol, news, range, w.now \div MS_PER_HOUR,
                                    UtcOffset)]

(***************************************************************************)
(* useStockData.fetchStockData, call c, back to front.                     *)
(***************************************************************************)
\* finally
Finally_keepsLoading(w, c) ==
  [w EXCEPT !.calls[c] = Done(@),
            !.finished = [w.calls[c] EXCEPT !.pc = "done"]]
Finally(world, c) ==
  Once(world, LAMBDA w : (
  [w EXCEPT !.loading = FALSE,
            !.calls[c] = Done(@),
            !.finished = [w.calls[c] EXCEPT !.pc = "done"]]))

\* catch
CatchReset_keepsQuote(w) ==
  [w EXCEPT !.newsList = NewsList(<<>>), !.sentimentData = Null]
CatchReset(w) ==
  [w EXCEPT !.stockInfo = Null, !.newsList = NewsList(<<>>),
            !.sentimentData = Null]

Catch(w, c) == Finally(CatchReset([w EXCEPT !.calls[c].threw = TRUE]), c)

\* lines 50-62: from the value of analyzeNewsWithGemini on
AfterAnalysis(world, c, body) ==
  Once(world, LAMBDA w : Once(body, LAMBDA analyzedNews : (
  LET symbol == w.calls[c].symbol
      range == w.calls[c].timeRange
  IN IF analyzedNews = Null THEN Catch(w, c)
     ELSE Once([w EXCEPT !.newsList = analyzedNews,
                         !.newsCache = setNews(@, symbol, range,
                                               analyzedNews, w.now)],
               LAMBDA w1 :
          Once(analyzeSentiment(w1, symbol, analyzedNews, range),
               LAMBDA sentiment :
             IF sentiment.threw THEN Catch(w1, c)
             ELSE Finally([w1 EXCEPT
                             !.sentimentData = sentiment.value,
                             !.sentimentCache =
                               setSentiment(@, symbol, range, sentiment.value,
                                            w.now)], c))))))

\* lines 45-86: from the value of getNewsArticles on
AfterNews(world, c, rawNews) ==
  Once(world, LAMBDA w : (
  LET symbol == w.calls[c].symbol
      range == w.calls[c].timeRange
  IN IF Len(rawNews.items) > 0
     THEN LET a == analyzeNewsWithGemini(rawNews)
              w1 == [w EXCEPT !.calls[c].analysisCalls = @ + 1,
                              !.calls[c].rawNews = rawNews,
                              !.calls[c].rawCount = Len(rawNews.items)]
          IN IF a.settled THEN AfterAnalysis(w1, c, a.value)
             ELSE [w1 EXCEPT !.calls[c].pc = "analysis"]
     ELSE Finally([w EXCEPT
                     !.calls[c].rawCount = 0,
                     !.newsList = NewsList(<<>>),
                     !.sentimentData = noNewsResult(symbol),
                     !.newsCache = setNews(@, symbol, range, NewsList(<<>>),
                                           w.now),
                     !.sentimentCache = setSentiment(@, symbol, range,
                                                     noNewsResult(symbol),
                                                     w.now)], c)))

\* the test of line 37
BothCached_either(cachedNews, cachedSentiment) ==
  cachedNews # Null \/ cachedSentiment # Null
BothCached(cachedNews, cachedSentiment) ==
  cachedNews # Null /\ cachedSentiment # Null

\* line 31: setStockInfo(stockData), by call c
setStockInfo_latestOnly(w, c, stockData) ==
  IF \A d \in CallIds : d > c => w.calls[d].pc = "idle"
  THEN [w EXCEPT !.stockInfo = stockData]
  ELSE w
setStockInfo(w, c, stockData) == [w EXCEPT !.stockInfo = stockData]

\* lines 31-44: from the value of stockData on
AfterQuote(world, c, stockData) ==
  Once(world, LAMBDA w : (
  LET symbol == w.calls[c].symbol
      range == w.calls[c].timeRange
      n == getNews(w.newsCache, symbol, range, w.now)
      s == getSentiment(w.sentimentCache, symbol, range, w.now)
      w1 == [setStockInfo(w, c, stockData) EXCEPT
                      !.newsCache = n.map,
                      !.sentimentCache = s.map,
                      !.calls[c].sawNews = n.value # Null,
                      !.calls[c].sawSentiment = s.value # Null]
  IN IF BothCached(n.value, s.value)
     THEN Finally([w1 EXCEPT !.newsList = n.value,
                             !.sentimentData = s.value,
                             !.calls[c].path = "cached",
                             !.calls[c].newsFrom = "tier"], c)
     ELSE LET r == getNewsArticles(w1, symbol, range)
              w2 == [w1 EXCEPT !.calls[c].path = "fresh",
                               !.calls[c].newsFetches = @ + 1,
                               !.calls[c].newsFrom = r.from]
          IN IF r.settled THEN AfterNews(w2, c, r.value)
             ELSE [w2 EXCEPT !.calls[c].pc = "news"]))

\* lines 12-29: the call itself
fetchStockData(world, c, symbol, range, existingStockData, origin) ==
  Once(world, LAMBDA w : (
  LET w1 == [w EXCEPT !.loading = TRUE,
                      !.stockInfo = Null,
                      !.newsList = NewsList(<<>>),
                      !.sentimentData = Null,
                      !.calls[c] = [NoCall EXCEPT !.pc = "start",
                                                  !.symbol = symbol,
                                                  !.timeRange = range,
                                                  !.origin = origin]]
  IN IF existingStockData # Null /\ existingStockData.symbol = symbol
     THEN AfterQuote([w1 EXCEPT !.calls[c].quoteFrom = "snapshot"], c,
                     existingStockData)
     ELSE LET r == getStockPrice(w1, symbol)
              w2 == [r.w EXCEPT !.calls[c].quoteFrom = r.from]
          IN IF r.settled THEN AfterQuote(w2, c, r.value)
             ELSE [w2 EXCEPT !.calls[c].pc = "quote"]))

clearStockData(w) ==
  [w EXCEPT !.stockInfo = Null, !.newsList = NewsList(<<>>),
            !.sentimentData = Null]

clearAllCache(w) ==
  [w EXCEPT !.stockCache = clear(@), !.newsCache = clear(@),
            !.sentimentCache = clear(@)]

(***************************************************************************)
(* Steps: the App handlers, the settling of each network exchange, and the *)
(* clock.                                                                  *)
(***************************************************************************)
Tickers == {<<"A">>, <<"B">>}
\* what one clock step adds to Date.now(): enough to outlive the quote tier's
\* TTL but not the generic cache's, or enough to outlive every cache
ClockSteps == {2 * STOCK_TTL, NEWS_TTL + STOCK_TTL}

InitApp ==
  /\ anonKey \in BOOLEAN
  /\ cache = EmptyMap
  /\ searchQuery = <<>>
  /\ timeRange = Range24h
  /\ loading = FALSE
  /\ stockInfo = Null
  /\ newsList = NewsList(<<>>)
  /\ sentimentData = Null
  /\ calls = [c \in CallIds |-> NoCall]
  /\ nCalls = 0
  /\ nSteps = 0
  /\ finished = NoCall

\* SearchBar: onSearch(symbol)
HandleSearch(symbol) ==
  /\ nCalls < MaxCalls
  /\ nCalls' = nCalls + 1
  /\ searchQuery' = symbol
  /\ InstallWorld(fetchStockData(World, nCalls + 1, symbol, timeRange, Null,
                                 "search"))
  /\ UNCHANGED <<now, anonKey, timeRange, nSteps>>
  /\ UNCHANGED NotApp

\* WatchList row: onStockClick(symbol, stockCache.get(symbol) || undefined);
\* the list is rendered only while loading is false
HandleStockClick(symbol) ==
  /\ nCalls < MaxCalls
  /\ ~loading
  /\ nCalls' = nCalls + 1
  /\ searchQuery' = symbol
  /\ LET cachedData == get(stockCache, symbol, now)
     IN InstallWorld(fetchStockData([World EXCEPT !.stockCache = cachedData.map],
                                    nCalls + 1, symbol, timeRange,
                                    cachedData.value, "watchlist"))
  /\ UNCHANGED <<now, anonKey, timeRange, nSteps>>
  /\ UNCHANGED NotApp

\* StockSummary: onRefresh; rendered while loading is false and a quote is shown
HandleRefresh ==
  /\ ~loading
  /\ stockInfo # Null
  /\ IF searchQuery # <<>>
     THEN /\ nCalls < MaxCalls
          /\ nCalls' = nCalls + 1
          /\ InstallWorld(fetchStockData(clearAllCache(World), nCalls + 1,
                                         searchQuery, timeRange, Null,
                                         "refresh"))
     ELSE /\ nCalls' = nCalls
          /\ InstallWorld(clearAllCache(World))
  /\ UNCHANGED <<now, anonKey, timeRange, searchQuery, nSteps>>
  /\ UNCHANGED NotApp

\* Header: onClearSearch; active while a quote is shown
HandleClearSearch ==
  /\ stockInfo # Null
  /\ searchQuery' = <<>>
  /\ InstallWorld(clearStockData(World))
  /\ UNCHANGED <<now, anonKey, timeRange, nCalls, nSteps>>
  /\ UNCHANGED NotApp

QuoteSettles(c, outcome) ==
  /\ calls[c].pc = "quote"
  /\ LET r == getStockPriceSettled(World, calls[c].symbol, outcome)
     IN InstallWorld(AfterQuote([r.w EXCEPT !.calls[c].quoteFrom = r.from], c,
                                r.value))
  /\ UNCHANGED <<now, anonKey, timeRange, searchQuery, nCalls, nSteps>>
  /\ UNCHANGED NotApp

NewsSettles(c, outcome) ==
  /\ calls[c].pc = "news"
  /\ LET r == getNewsArticlesSettled(World, calls[c].symbol, calls[c].timeRange,
                                     outcome)
     IN InstallWorld(AfterNews([r.w EXCEPT !.calls[c].newsFrom = r.from], c,
                               r.value))
  /\ UNCHANGED <<now, anonKey, timeRange, searchQuery, nCalls, nSteps>>
  /\ UNCHANGED NotApp

AnalysisSettles(c, outcome) ==
  /\ calls[c].pc = "analysis"
  /\ InstallWorld(AfterAnalysis(World, c,
                                analyzeNewsWithGeminiSettled(calls[c].rawNews,
                                                             outcome).value))
  /\ UNCHANGED <<now, anonKey, timeRange, searchQuery, nCalls, nSteps>>
  /\ UNCHANGED NotApp

TickApp(ms) ==
  /\ nSteps < MaxSteps
  /\ nSteps' = nSteps + 1
  /\ now' = now + ms
  /\ finished' = NoCall
  /\ UNCHANGED <<stockCache, newsCache, sentimentCache, anonKey, cache,
                 searchQuery, timeRange, loading, stockInfo, newsList,
                 sentimentData, calls, nCalls>>
  /\ UNCHANGED NotApp

\* a network exchange of some call settles
Settles ==
  \/ (\E c \in CallIds, outcome \in QuoteOutcomes : QuoteSettles(c, outcome))
  \/ (\E c \in CallIds, outcome \in NewsOutcomes : NewsSettles(c, outcome))
  \/ (\E c \in CallIds, outcome \in AnalysisOutcomes : AnalysisSettles(c, outcome))

\* the steps at one clock value
NextAppNow ==
  \/ (\E symbol \in Tickers : HandleSearch(symbol))
  \/ (\E symbol \in Tickers : HandleStockClick(symbol))
  \/ HandleRefresh
  \/ HandleClearSearch
  \/ Settles

NextApp ==
  \/ NextAppNow
  \/ (\E ms \in ClockSteps : TickApp(ms))

\* every network exchange settles
FairApp == WF_vars(Settles)

(***************************************************************************)
(* analyzeSentiment, called once on a list of analysed articles.           *)
(***************************************************************************)
FinancialSentimentCategories == {"bullish", "bearish", "neutral-impact", "mixed"}
\* sentimentScore, in hundredths
Scores == {-40, 0, 10, 30, 60}
\* publishedAt, in hours
PublishedHours == {-5, -4, -3, -2, -1, 0}

InitSentiment ==
  /\ newsArg = NewsList(<<>>)
  /\ rangeArg = Range24h
  /\ sentimentResult = Null

\* the caller's list gets one more analysed article
AppendArticle(category, score, publishedAt) ==
  /\ sentimentResult = Null
  /\ Len(newsArg.items) < MaxArticles
  /\ newsArg' = NewsList(Append(newsArg.items,
                                [id |-> Len(newsArg.items) + 1,
                                 publishedAt |-> publishedAt,
                                 financialSentimentCategory |-> category,
                                 sentimentScore |-> score,
                                 relevanceToPrice |-> "high"]))
  /\ UNCHANGED <<rangeArg, sentimentResult, now>>
  /\ UNCHANGED NotSentiment

\* analyzeSentiment(symbol, newsArg, range) resolves
CallAnalyzeSentiment(symbol, range) ==
  /\ sentimentResult = Null
  /\ rangeArg' = range
  /\ sentimentResult' = analyzeSentiment(World, symbol, newsArg, range).value
  /\ UNCHANGED <<newsArg, now>>
  /\ UNCHANGED NotSentiment

\* an hour passes before the list is made
TickSentiment ==
  /\ Len(newsArg.items) = 0
  /\ sentimentResult = Null
  /\ now < MaxHours * MS_PER_HOUR
  /\ now' = now + MS_PER_HOUR
  /\ UNCHANGED <<newsArg, rangeArg, sentimentResult>>
  /\ UNCHANGED NotSentiment

NextSentiment ==
  \/ (\E category \in FinancialSentimentCategories, score \in Scores,
         publishedAt \in PublishedHours :
        AppendArticle(category, score, publishedAt))
  \/ (\E symbol \in Tickers, range \in TimeRanges :
        CallAnalyzeSentiment(symbol, range))
  \/ TickSentiment

(***************************************************************************)
(* Specifications.                                                         *)
(***************************************************************************)
(***************************************************************************)
(* The edge function process-news-with-gemini, serving one request.        *)
(***************************************************************************)
\* JSON values of the LLM's answer, with their typeof
Undefined == [type |-> "undefined"]
Str(string) == [type |-> "string", string |-> string]
Num(number) == [type |-> "number", number |-> number]

\* x || fallback, for x a string or undefined
OrElse(x, fallback) ==
  IF x.type = "string" /\ x.string # "" THEN x.string ELSE fallback

\* what the generateContent exchange of one article can bring: a failure
\* before any JSON object is parsed, or the object parsed from the text
LLMFailures ==
  {"fetch_rejected", "status_not_ok", "no_text", "unparseable", "json_null"}
LLMCategories == {Str("bullish"), Str("positive"), Undefined}
\* in hundredths
LLMScores == {Num(60), Num(150), Undefined}
LLMRelevances == {Str("high"), Str("critical")}
LLMConfidences == {Str("HIGH"), Num(1)}
LLMAnswers ==
  {[kind |-> f] : f \in LLMFailures}
  \cup [kind : {"object"}, financialSentimentCategory : LLMCategories,
        sentimentScoreNumeric : LLMScores, relevanceToPrice : LLMRelevances,
        analysisConfidence : LLMConfidences]

toLowerCase(value) == IF value = "HIGH" THEN "high" ELSE value

\* lines 173-186
AnalyzedArticle(article, category, relevance, sentimentScore, analysisConfidence) ==
  [id |-> article.id,
   publishedAt |-> article.publishedAt,
   financialSentimentCategory |-> category,
   relevanceToPrice |-> relevance,
   sentimentScore |-> sentimentScore,
   analysisConfidence |-> analysisConfidence]

\* lines 161-171 and 173-186: the catch block's article
DefaultedArticle(article) ==
  AnalyzedArticle(article, "neutral-impact", "low", 0, "low")

\* lines 136-144
ValidScore(score) ==
  IF score.type = "number" /\ score.number >= -100 /\ score.number <= 100
  THEN score.number
  ELSE 0

\* lines 97-186: the value the promise of one article resolves to
AnalyzeArticle(article, llm) ==
  IF llm.kind # "object" THEN DefaultedArticle(article)
  ELSE IF llm.analysisConfidence.type \notin {"string", "undefined"}
       THEN \* analysisConfidence?.toLowerCase is not a function
            DefaultedArticle(article)
       ELSE LET conf == IF llm.analysisConfidence.type = "string"
                        THEN toLowerCase(llm.analysisConfidence.string)
                        ELSE "undefined"
            IN AnalyzedArticle(article,
                 OrElse(llm.financialSentimentCategory, "neutral-impact"),
                 OrElse(llm.relevanceToPrice, "low"),
                 ValidScore(llm.sentimentScoreNumeric),
                 IF conf \in {"high", "medium", "low"} THEN conf ELSE "low")

Pending == [kind |-> "pending"]
Response(status, body) == [status |-> status, body |-> body]
ErrorBody == [kind |-> "error"]

\* the articles of a request: ids in any order, repeated or not
EdgeIds == {7, 8}
EdgeArticles ==
  UNION {[1 .. n -> [id : EdgeIds, publishedAt : {0}]] : n \in 0 .. MaxEdgeArticles}

InitEdge ==
  /\ geminiKey = TRUE
  /\ articlesReq = Null
  /\ analysisPromises = <<>>
  /\ edgeResponse = Null
  /\ settleOrder = <<>>
  /\ llmAnswers = <<>>

\* lines 17-49: a POST with these articles arrives while the environment
\* holds a key or none; each article's callback runs up to its fetch
Serve(articles, key) ==
  /\ articlesReq = Null
  /\ articlesReq' = NewsList(articles)
  /\ geminiKey' = key
  /\ IF ~key
     THEN /\ edgeResponse' = Response(500, ErrorBody)
          /\ analysisPromises' = <<>>
     ELSE IF Len(articles) = 0
     THEN /\ edgeResponse' = Response(400, ErrorBody)
          /\ analysisPromises' = <<>>
     ELSE /\ edgeResponse' = Null
          /\ analysisPromises' = [i \in DOMAIN articles |-> Pending]
  /\ llmAnswers' = [i \in DOMAIN articles |-> Pending]
  /\ UNCHANGED settleOrder
  /\ UNCHANGED NotEdge

\* lines 189-197: Promise.all and the 200 response
PromiseAll_asSettled(promises, order) ==
  [k \in DOMAIN order |-> promises[order[k]]]
PromiseAll(promises, order) == promises

\* the generateContent exchange of article i settles; once none is pending
\* Promise.all resolves and the response is returned
GeminiSettles(i, llm) ==
  /\ articlesReq # Null
  /\ edgeResponse = Null
  /\ i \in DOMAIN analysisPromises
  /\ analysisPromises[i] = Pending
  /\ LET promises == [analysisPromises EXCEPT
                        ![i] = AnalyzeArticle(articlesReq.items[i], llm)]
     IN /\ analysisPromises' = promises
        /\ settleOrder' = Append(settleOrder, i)
        /\ llmAnswers' = [llmAnswers EXCEPT ![i] = llm]
        /\ edgeResponse' =
             IF \A k \in DOMAIN promises : promises[k] # Pending
             THEN Response(200, PromiseAll(promises, Append(settleOrder, i)))
             ELSE Null
  /\ UNCHANGED <<geminiKey, articlesReq>>
  /\ UNCHANGED NotEdge

NextEdge ==
  \/ (\E articles \in EdgeArticles, key \in BOOLEAN : Serve(articles, key))
  \/ (\E i \in 1 .. MaxEdgeArticles, llm \in LLMAnswers : GeminiSettles(i, llm))

(***************************************************************************)
(* apiService's exported functions, called one after the other.            *)
(***************************************************************************)
SearchKey(query) == <<"search_">> \o query

\* the result array of a /search response, and what an exchange can bring
SearchBody(query) ==
  <<[symbol |-> query, description |-> "x", type |-> "Common Stock"],
    [symbol |-> query \o <<".", "W">>, description |-> "x", type |-> "Warrant"],
    [symbol |-> query \o <<".", "E">>, description |-> "", type |-> "ETF"]>>
SearchOutcomes == {"results", "no_result", "result_not_array", "failed"}
allowedTypes == {"Common Stock", "ETF", "ETP", "ETN"}

\* lines 120-127
searchStocks(w, query) ==
  IF ~anonKey
  THEN [settled |-> TRUE, value |-> NewsList(<<>>), from |-> "nokey"]
  ELSE LET cached == getCachedData(w.cache, SearchKey(query), w.now)
       IN IF cached # Null
          THEN [settled |-> TRUE, value |-> cached, from |-> "generic"]
          ELSE [settled |-> FALSE, value |-> Null, from |-> "network"]

\* lines 129-167
searchStocksSettled(w, query, outcome) ==
  TryCatch(
    CASE outcome = "results" ->
           LET kept == SelectSeq(SearchBody(query),
                                 LAMBDA item : /\ item.description # ""
                                               /\ item.type \in allowedTypes)
               results == NewsList([i \in DOMAIN kept |->
                                      [symbol |-> kept[i].symbol,
                                       name |-> kept[i].description,
                                       type |-> kept[i].type,
                                       exchange |-> ""]])
           IN Returned([w |-> [w EXCEPT !.cache =
                                 setCachedData(@, SearchKey(query), results,
                                               w.now)],
                        value |-> results, from |-> "network",
                        rejected |-> FALSE])
      [] outcome = "no_result" ->
           Returned([w |-> w, value |-> NewsList(<<>>), from |-> "network",
                     rejected |-> FALSE])
      [] outcome \in {"result_not_array", "failed"} -> Threw,
    [w |-> w, value |-> NewsList(<<>>), from |-> "failed", rejected |-> FALSE])

ApiFunctions ==
  {"searchStocks", "getStockPrice", "getNewsArticles", "analyzeNewsWithGemini"}
ApiOutcomes(fn) ==
  CASE fn = "searchStocks" -> SearchOutcomes
    [] fn = "getStockPrice" -> QuoteOutcomes
    [] fn = "getNewsArticles" -> NewsOutcomes
    [] fn = "analyzeNewsWithGemini" -> AnalysisOutcomes
\* the outcomes in which the awaited exchange rejected after its retries
ApiFailed(fn) == IF fn = "getStockPrice" THEN "quote_failed" ELSE "failed"
\* fetches a call issues once it goes to the network
ApiRequests(fn) == IF fn = "getStockPrice" THEN 2 ELSE 1
\* what the spec calls the default of each function
ApiDefault(fn, symbol, articles) ==
  CASE fn = "searchStocks" -> NewsList(<<>>)
    [] fn = "getStockPrice" ->
         [symbol |-> symbol, name |-> symbol, price |-> 0, change |-> 0,
          changePercent |-> 0, exchange |-> "", industry |-> "",
          previousClose |-> 0, marketCap |-> NullNumber]
    [] fn = "getNewsArticles" -> NewsList(<<>>)
    [] fn = "analyzeNewsWithGemini" ->
         NewsList([i \in DOMAIN articles.items |->
                     [id |-> articles.items[i].id,
                      publishedAt |-> articles.items[i].publishedAt,
                      financialSentimentCategory |-> "neutral-impact",
                      sentimentScore |-> 0,
                      relevanceToPrice |-> "low"]])

NoApiCall ==
  [n |-> 0, fn |-> "none", symbol |-> <<>>, articles |-> NewsList(<<>>),
   pc |-> "idle", value |-> Null, requests |-> 0, outcome |-> "none"]

InitApi == apiCall = NoApiCall

\* the part of a call before its first await of the network
ApiStart(fn, symbol, articles) ==
  CASE fn = "searchStocks" ->
         LET r == searchStocks(World, symbol)
         IN [w |-> World, settled |-> r.settled, value |-> r.value]
    [] fn = "getStockPrice" ->
         LET r == getStockPrice(World, symbol)
         IN [w |-> r.w, settled |-> r.settled, value |-> r.value]
    [] fn = "getNewsArticles" ->
         LET r == getNewsArticles(World, symbol, Range24h)
         IN [w |-> World, settled |-> r.settled, value |-> r.value]
    [] fn = "analyzeNewsWithGemini" ->
         LET r == analyzeNewsWithGemini(articles)
         IN [w |-> World, settled |-> r.settled, value |-> r.value]

\* the part of a call from the settling of its exchange on
ApiEnd(fn, symbol, articles, outcome) ==
  CASE fn = "searchStocks" -> searchStocksSettled(World, symbol, outcome)
    [] fn = "getStockPrice" -> getStockPriceSettled(World, symbol, outcome)
    [] fn = "getNewsArticles" ->
         getNewsArticlesSettled(World, symbol, Range24h, outcome)
    [] fn = "analyzeNewsWithGemini" ->
         LET r == analyzeNewsWithGeminiSettled(articles, outcome)
         IN [w |-> World, value |-> r.value, rejected |-> r.rejected]

\* one of the four functions is called
ApiCalled(fn, symbol, articles) ==
  /\ apiCall.pc # "pending"
  /\ apiCall.n < MaxApiCalls
  /\ \E r \in {ApiStart(fn, symbol, articles)} :
       /\ stockCache' = r.w.stockCache
       /\ cache' = r.w.cache
       /\ apiCall' = [n |-> apiCall.n + 1, fn |-> fn, symbol |-> symbol,
                      articles |-> articles,
                      pc |-> IF r.settled THEN "resolved" ELSE "pending",
                      value |-> r.value,
                      requests |-> IF r.settled THEN 0 ELSE ApiRequests(fn),
                      outcome |-> "none"]
  /\ UNCHANGED now
  /\ UNCHANGED NotApi

\* the exchange the call awaits settles
ApiSettles(outcome) ==
  /\ apiCall.pc = "pending"
  /\ outcome \in ApiOutcomes(apiCall.fn)
  /\ \E r \in {ApiEnd(apiCall.fn, apiCall.symbol, apiCall.articles, outcome)} :
       /\ stockCache' = r.w.stockCache
       /\ cache' = r.w.cache
       /\ apiCall' = [apiCall EXCEPT
                        !.pc = IF r.rejected THEN "rejected" ELSE "resolved",
                        !.value = r.value,
                        !.outcome = outcome]
  /\ UNCHANGED now
  /\ UNCHANGED NotApi

\* time passes between two calls
TickApi(ms) ==
  /\ apiCall.pc # "pending"
  /\ now < MaxApiTicks * CACHE_DURATION
  /\ now' = now + ms
  /\ UNCHANGED <<stockCache, cache, apiCall>>
  /\ UNCHANGED NotApi

NextApi ==
  \/ (\E fn \in ApiFunctions, symbol \in Tickers,
         articles \in {NewsList(<<>>), RawArticles} :
        ApiCalled(fn, symbol, articles))
  \/ (\E outcome \in SearchOutcomes \cup QuoteOutcomes \cup NewsOutcomes
                       \cup AnalysisOutcomes : ApiSettles(outcome))
  \/ TickApi(CACHE_DURATION)

(***************************************************************************)
(* useWatchlist, in its two variants, with the auth client and the         *)
(* watchlist table.                                                        *)
(***************************************************************************)
NoUser == "none"
Users == {"u1", "u2"}

Item(symbol) == [symbol |-> symbol, name |-> symbol]
Row(symbol, u) == [symbol |-> symbol, user_id |-> u]

\* one asynchronous call of the hook: getUser of variant 1's mount effect,
\* fetchWatchlist, addToWatchlist or removeFromWatchlist; present is what
\* watchlist.some(...) gives on the list the call's closure holds
NoOp ==
  [kind |-> "none", pc |-> "idle", user |-> NoUser, symbol |-> <<>>,
   present |-> FALSE, data |-> <<>>, error |-> FALSE, result |-> "none"]
DoneOp(op, result) ==
  [NoOp EXCEPT !.kind = op.kind, !.pc = "done", !.symbol = op.symbol,
               !.present = op.present, !.result = result]
Op(kind, pc, u, symbol, present) ==
  [NoOp EXCEPT !.kind = kind, !.pc = pc, !.user = u, !.symbol = symbol,
               !.present = present]

OpIds == 1 .. MaxOps

\* watchlist.some(item => item.symbol === symbol)
Exists(list, symbol) == \E k \in DOMAIN list : list[k].symbol = symbol

\* select symbol, name where user_id = u order by created_at desc
SelectRows(rows, u) ==
  LET own == SelectSeq(rows, LAMBDA r : r.user_id = u)
  IN [k \in DOMAIN own |-> Item(own[k].symbol)]

InitWatchlist ==
  /\ hookVariant = 0
  /\ session = NoUser
  /\ user = NoUser
  /\ watchlist = <<>>
  /\ wlLoading = TRUE
  /\ table = <<>>
  /\ subscribedTo = NoUser
  /\ ops = [i \in OpIds |-> NoOp]
  /\ nOps = 0
  /\ changes = <<>>
  /\ nAuth = 0

\* the next call of the hook starts as op
StartOp(op) ==
  /\ nOps < MaxOps
  /\ nOps' = nOps + 1
  /\ ops' = [ops EXCEPT ![nOps + 1] = op]

\* the component using the hook mounts: the effects with [] dependencies run
\* (variant 1: lines 16-29; variant 2: lines 227-267, getSession being local)
Mount(variant) ==
  /\ hookVariant = 0
  /\ hookVariant' = variant
  /\ IF variant = 1
     THEN /\ StartOp(Op("getUser", "getUser", NoUser, <<>>, FALSE))
          /\ UNCHANGED <<watchlist, wlLoading, subscribedTo>>
     ELSE /\ subscribedTo' = "all"
          /\ IF session # NoUser
             THEN /\ StartOp(Op("fetch", "getUser", NoUser, <<>>, FALSE))
                  /\ UNCHANGED <<watchlist, wlLoading>>
             ELSE /\ watchlist' = <<>>
                  /\ wlLoading' = FALSE
                  /\ UNCHANGED <<ops, nOps>>
  /\ UNCHANGED <<session, user, table, changes, nAuth>>
  /\ UNCHANGED NotWatchlist

\* a user signs in; onAuthStateChange fires.  Variant 1: setUser, then the
\* [user] effect fetches and subscribes (lines 24-26, 104-128).  Variant 2:
\* SIGNED_IN calls fetchWatchlist (lines 240-242)
SignIn(u) ==
  /\ session = NoUser
  /\ nAuth < MaxAuthEvents
  /\ nAuth' = nAuth + 1
  /\ session' = u
  /\ CASE hookVariant = 0 -> UNCHANGED <<user, subscribedTo, ops, nOps>>
       [] hookVariant = 1 ->
            /\ user' = u
            /\ subscribedTo' = u
            /\ StartOp(Op("fetch", "select", u, <<>>, FALSE))
       [] hookVariant = 2 ->
            /\ StartOp(Op("fetch", "getUser", NoUser, <<>>, FALSE))
            /\ UNCHANGED <<user, subscribedTo>>
  /\ UNCHANGED <<hookVariant, watchlist, wlLoading, table, changes>>
  /\ UNCHANGED NotWatchlist

\* the user signs out; onAuthStateChange fires.  Variant 1: setUser(null),
\* then the [user] effect's cleanup removes the channel and its body does
\* nothing.  Variant 2: SIGNED_OUT empties the list (lines 243-246)
SignOutHandlers ==
  CASE hookVariant = 0 -> UNCHANGED <<user, subscribedTo, watchlist, wlLoading>>
    [] hookVariant = 1 ->
         /\ user' = NoUser
         /\ subscribedTo' = NoUser
         /\ UNCHANGED <<watchlist, wlLoading>>
    [] hookVariant = 2 ->
         /\ watchlist' = <<>>
         /\ wlLoading' = FALSE
         /\ UNCHANGED <<user, subscribedTo>>

SignOut ==
  /\ session # NoUser
  /\ nAuth < MaxAuthEvents
  /\ nAuth' = nAuth + 1
  /\ session' = NoUser
  /\ SignOutHandlers
  /\ UNCHANGED <<hookVariant, table, ops, nOps, changes>>
  /\ UNCHANGED NotWatchlist

\* supabase.auth.getUser() of call i resolves with the session's user
GetUserSettles(i) ==
  /\ ops[i].pc = "getUser"
  /\ CASE ops[i].kind = "getUser" ->
            \* variant 1, lines 18-19: setUser, then the [user] effect
            /\ user' = session
            /\ IF session # NoUser
               THEN /\ subscribedTo' = session
                    /\ ops' = [ops EXCEPT
                                 ![i] = Op("fetch", "select", session, <<>>, FALSE)]
               ELSE /\ ops' = [ops EXCEPT ![i] = DoneOp(@, "no_user")]
                    /\ UNCHANGED subscribedTo
            /\ UNCHANGED <<watchlist, wlLoading>>
       [] ops[i].kind = "fetch" ->
            \* variant 2, lines 152-157
            /\ IF session = NoUser
               THEN /\ watchlist' = <<>>
                    /\ wlLoading' = FALSE
                    /\ ops' = [ops EXCEPT ![i] = DoneOp(@, "no_user")]
               ELSE /\ ops' = [ops EXCEPT ![i].pc = "select", ![i].user = session]
                    /\ UNCHANGED <<watchlist, wlLoading>>
            /\ UNCHANGED <<user, subscribedTo>>
       [] ops[i].kind = "add" ->
            \* variant 2, lines 176-183
            /\ ops' = [ops EXCEPT ![i] =
                         IF session = NoUser THEN DoneOp(@, "no_user")
                         ELSE IF @.present THEN DoneOp(@, "exists")
                         ELSE [@ EXCEPT !.pc = "insert", !.user = session]]
            /\ UNCHANGED <<user, subscribedTo, watchlist, wlLoading>>
       [] ops[i].kind = "remove" ->
            \* variant 2, lines 202-206
            /\ ops' = [ops EXCEPT ![i] =
                         IF session = NoUser THEN DoneOp(@, "no_user")
                         ELSE [@ EXCEPT !.pc = "delete", !.user = session]]
            /\ UNCHANGED <<user, subscribedTo, watchlist, wlLoading>>
  /\ UNCHANGED <<hookVariant, session, table, nOps, changes, nAuth>>
  /\ UNCHANGED NotWatchlist

\* the database answers call i's select, insert or delete
ServerAnswers(i, failed) ==
  /\ ops[i].pc \in {"select", "insert", "delete"}
  /\ CASE ops[i].pc = "select" ->
            /\ ops' = [ops EXCEPT
                         ![i].pc = "selected", ![i].error = failed,
                         ![i].data = IF failed THEN <<>>
                                     ELSE SelectRows(table, ops[i].user)]
            /\ UNCHANGED <<table, changes>>
       [] ops[i].pc = "insert" ->
            /\ ops' = [ops EXCEPT ![i].pc = "inserted", ![i].error = failed]
            /\ IF failed THEN UNCHANGED <<table, changes>>
               ELSE /\ table' = <<Row(ops[i].symbol, ops[i].user)>> \o table
                    /\ changes' = Append(changes, ops[i].user)
       [] ops[i].pc = "delete" ->
            /\ ops' = [ops EXCEPT ![i].pc = "deleted", ![i].error = failed]
            /\ IF failed THEN UNCHANGED <<table, changes>>
               ELSE /\ table' = SelectSeq(table,
                                          LAMBDA r : ~(/\ r.user_id = ops[i].user
                                                       /\ r.symbol = ops[i].symbol))
                    /\ changes' = IF table' # table
                                  THEN Append(changes, ops[i].user)
                                  ELSE changes
  /\ UNCHANGED <<hookVariant, session, user, watchlist, wlLoading, subscribedTo,
                 nOps, nAuth>>
  /\ UNCHANGED NotWatchlist

\* the database's answer reaches call i, which runs to its end, or in
\* variant 2's addToWatchlist into fetchWatchlist
Returns(i) ==
  /\ ops[i].pc \in {"selected", "inserted", "deleted"}
  /\ CASE ops[i].pc = "selected" ->
            \* fetchWatchlist, lines 45-51 and 165-171
            /\ watchlist' = IF ops[i].error THEN watchlist ELSE ops[i].data
            /\ wlLoading' = FALSE
            /\ ops' = [ops EXCEPT ![i] =
                         DoneOp(@, IF @.error THEN "error" ELSE "fetched")]
       [] ops[i].pc = "inserted" ->
            \* addToWatchlist, lines 72-78 and 189-197
            IF ops[i].error
            THEN /\ ops' = [ops EXCEPT ![i] = DoneOp(@, "error")]
                 /\ UNCHANGED <<watchlist, wlLoading>>
            ELSE IF hookVariant = 1
            THEN /\ watchlist' = <<Item(ops[i].symbol)>> \o watchlist
                 /\ ops' = [ops EXCEPT ![i] = DoneOp(@, "inserted")]
                 /\ UNCHANGED wlLoading
            ELSE /\ ops' = [ops EXCEPT
                              ![i] = Op("fetch", "getUser", NoUser, <<>>, FALSE)]
                 /\ UNCHANGED <<watchlist, wlLoading>>
       [] ops[i].pc = "deleted" ->
            \* removeFromWatchlist, lines 94-100 and 214-223
            /\ watchlist' = IF ops[i].error THEN watchlist
                            ELSE SelectSeq(watchlist,
                                           LAMBDA item : item.symbol # ops[i].symbol)
            /\ ops' = [ops EXCEPT ![i] =
                         DoneOp(@, IF @.error THEN "error" ELSE "deleted")]
            /\ UNCHANGED wlLoading
  /\ UNCHANGED <<hookVariant, session, user, table, subscribedTo, nOps, changes,
                 nAuth>>
  /\ UNCHANGED NotWatchlist

\* addToWatchlist(symbol, name) is called from the current render
addToWatchlist_always(symbol) ==
  LET exists == Exists(watchlist, symbol)
  IN IF hookVariant = 1
     THEN IF user = NoUser
          THEN DoneOp(Op("add", "idle", NoUser, symbol, exists), "no_user")
          ELSE Op("add", "insert", user, symbol, exists)
     ELSE Op("add", "getUser", NoUser, symbol, exists)
addToWatchlist(symbol) ==
  LET exists == Exists(watchlist, symbol)
  IN IF hookVariant = 1
     THEN IF user = NoUser
          THEN DoneOp(Op("add", "idle", NoUser, symbol, exists), "no_user")
          ELSE IF exists
          THEN DoneOp(Op("add", "idle", user, symbol, exists), "exists")
          ELSE Op("add", "insert", user, symbol, exists)
     ELSE Op("add", "getUser", NoUser, symbol, exists)

AddCalled(symbol) ==
  /\ hookVariant # 0
  /\ StartOp(addToWatchlist(symbol))
  /\ UNCHANGED <<hookVariant, session, user, watchlist, wlLoading, table,
                 subscribedTo, changes, nAuth>>
  /\ UNCHANGED NotWatchlist

\* removeFromWatchlist(symbol) is called
removeFromWatchlist(symbol) ==
  IF hookVariant = 1
  THEN IF user = NoUser
       THEN DoneOp(Op("remove", "idle", NoUser, symbol, FALSE), "no_user")
       ELSE Op("remove", "delete", user, symbol, FALSE)
  ELSE Op("remove", "getUser", NoUser, symbol, FALSE)

RemoveCalled(symbol) ==
  /\ hookVariant # 0
  /\ StartOp(removeFromWatchlist(symbol))
  /\ UNCHANGED <<hookVariant, session, user, watchlist, wlLoading, table,
                 subscribedTo, changes, nAuth>>
  /\ UNCHANGED NotWatchlist

\* the realtime channel delivers the oldest row change: the callback calls
\* fetchWatchlist if the channel listens to that row (variant 1: the filter
\* user_id=eq.<user>; variant 2: the rows the session's user may see)
SubscriptionFires ==
  /\ changes # <<>>
  /\ changes' = Tail(changes)
  /\ IF hookVariant = 1 /\ subscribedTo = Head(changes) /\ nOps < MaxOps
     THEN StartOp(Op("fetch", "select", subscribedTo, <<>>, FALSE))
     ELSE IF hookVariant = 2 /\ session = Head(changes) /\ nOps < MaxOps
     THEN StartOp(Op("fetch", "getUser", NoUser, <<>>, FALSE))
     ELSE UNCHANGED <<ops, nOps>>
  /\ UNCHANGED <<hookVariant, session, user, watchlist, wlLoading, table,
                 subscribedTo, nAuth>>
  /\ UNCHANGED NotWatchlist

NextWatchlist ==
  \/ (\E variant \in {1, 2} : Mount(variant))
  \/ (\E u \in Users : SignIn(u))
  \/ SignOut
  \/ (\E i \in OpIds : GetUserSettles(i))
  \/ (\E i \in OpIds, failed \in BOOLEAN : ServerAnswers(i, failed))
  \/ (\E i \in OpIds : Returns(i))
  \/ (\E symbol \in Tickers : AddCalled(symbol))
  \/ (\E symbol \in Tickers : RemoveCalled(symbol))
  \/ SubscriptionFires

(***************************************************************************)
(* The WatchList component's fetchPrices, beside the App's handlers.       *)
(***************************************************************************)
\* the lists of stocks the component is rendered with
Watchlists == {<< <<"A">> >>, << <<"A">>, <<"B">> >>}

NoPrice == [from |-> "none", value |-> Null, at |-> 0]
PriceReturn(value, from, at) == [from |-> from, value |-> value, at |-> at]

\* lines 35-40: priceData is an object, so it is cached whatever it holds
CachePrice(w, symbol, priceData) ==
  [w EXCEPT !.stockCache = set(@, symbol, priceData, 0, w.now)]

\* watchlist.map(async stock => ...) of lines 32-56, stock by stock, up to
\* the exchanges that have to be awaited: s holds the state, what was
\* returned and what is awaited
RECURSIVE fetchPrices(_, _)
fetchPrices(s, stocks) ==
  IF Len(stocks) = 0 THEN s
  ELSE Once(getStockPrice(s.w, Head(stocks)), LAMBDA r :
         fetchPrices(
           IF r.settled
           THEN [s EXCEPT !.w = CachePrice(r.w, Head(stocks), r.value),
                          !.returned[Head(stocks)] =
                            PriceReturn(r.value, r.from, s.w.now)]
           ELSE [s EXCEPT !.w = r.w, !.pending[Head(stocks)] = TRUE],
           Tail(stocks)))

InitPrices ==
  /\ pricePending = [symbol \in Tickers |-> FALSE]
  /\ priceReturned = [symbol \in Tickers |-> NoPrice]
  /\ nPriceFetches = 0
  /\ nPriceTicks = 0

\* the effect on [watchlist, timeRange] or the refresh button (disabled while
\* refreshing) runs fetchPrices
FetchPrices(stocks) ==
  /\ nPriceFetches < MaxPriceFetches
  /\ \A symbol \in Tickers : ~pricePending[symbol]
  /\ nPriceFetches' = nPriceFetches + 1
  /\ \E s \in {fetchPrices([w |-> World, returned |-> priceReturned,
                            pending |-> pricePending], stocks)} :
       /\ InstallWorld(s.w)
       /\ priceReturned' = s.returned
       /\ pricePending' = s.pending
  /\ UNCHANGED <<now, anonKey, searchQuery, timeRange, nCalls, nSteps,
                 nPriceTicks>>
  /\ UNCHANGED NotPrices

\* the exchanges of one stock's getStockPrice settle, and the rest of its
\* callback runs
PriceSettles(symbol, outcome) ==
  /\ pricePending[symbol]
  /\ pricePending' = [pricePending EXCEPT ![symbol] = FALSE]
  /\ \E r \in {getStockPriceSettled(World, symbol, outcome)} :
       /\ InstallWorld(CachePrice(r.w, symbol, r.value))
       /\ priceReturned' =
            [priceReturned EXCEPT ![symbol] = PriceReturn(r.value, r.from, now)]
  /\ UNCHANGED <<now, anonKey, searchQuery, timeRange, nCalls, nSteps,
                 nPriceFetches, nPriceTicks>>
  /\ UNCHANGED NotPrices

\* the quote tier's TTL passes
TickPrices ==
  /\ nPriceTicks < MaxPriceTicks
  /\ nPriceTicks' = nPriceTicks + 1
  /\ now' = now + STOCK_TTL
  /\ finished' = NoCall
  /\ UNCHANGED <<stockCache, newsCache, sentimentCache, anonKey, cache,
                 searchQuery, timeRange, loading, stockInfo, newsList,
                 sentimentData, calls, nCalls, nSteps, pricePending,
                 priceReturned, nPriceFetches>>
  /\ UNCHANGED NotPrices

\* the quote's part of the App beside fetchPrices: a call made here gets its
\* quote and then waits for its news (SpecApp takes calls to their end)
NextPrices ==
  \/ (\E symbol \in Tickers : HandleSearch(symbol))
  \/ (\E symbol \in Tickers : HandleStockClick(symbol))
  \/ (\E stocks \in Watchlists : FetchPrices(stocks))
  \/ (\E symbol \in Tickers, outcome \in QuoteOutcomes :
        PriceSettles(symbol, outcome))
  \/ (\E c \in CallIds, outcome \in QuoteOutcomes : QuoteSettles(c, outcome))
  \/ TickPrices

Init ==
  /\ InitQueue
  /\ InitRetry
  /\ InitCache
  /\ InitApp
  /\ InitSentiment
  /\ InitEdge
  /\ InitApi
  /\ InitWatchlist
  /\ InitPrices

\* the start with the client key set: the components below the App do not
\* read it
InitWithKey == Init /\ anonKey

SpecQueue == InitWithKey /\ [][NextQueue]_vars
LiveSpecQueue == InitWithKey /\ [][NextQueue]_vars /\ FairQueue
SpecRetry == InitWithKey /\ [][NextRetry]_vars
SpecCache == InitWithKey /\ [][NextCache]_vars
SpecApp == Init /\ [][NextApp]_vars
SpecSentiment == InitWithKey /\ [][NextSentiment]_vars
SpecEdge == InitWithKey /\ [][NextEdge]_vars
SpecApi == Init /\ [][NextApi]_vars
SpecWatchlist == InitWithKey /\ [][NextWatchlist]_vars
SpecPrices == InitWithKey /\ [][NextPrices]_vars
LiveSpecApp == Init /\ [][NextAppNow]_vars /\ FairApp

Occurrences(s, x) == Cardinality({i \in 1 .. Len(s) : s[i] = x})
Running == {t \in Tasks : taskState[t] = "running"}

(***************************************************************************)
(* Claims about the request queue.                                         *)
(***************************************************************************)

\* C1: at every instant at most MAX_REQUESTS_PER_SECOND (30) requests have
\* been started within the last 1000 ms (recentStarts holds exactly the
\* starts of the interval (now - 1000, now]).
C1_RollingWindowQuota == Len(recentStarts) <= MAX_REQUESTS_PER_SECOND

\* C2: at most one request has been started and has not yet settled.
C2_OneAtATime == Cardinality(Running) <= 1

\* C3: requests are started in the order they were passed to queueRequest:
\* the start history is a prefix of the submission history.
C3_FifoStartOrder ==
  /\ Len(startLog) <= Len(submitLog)
  /\ \A i \in 1 .. Len(startLog) : startLog[i] = submitLog[i]

\* C3 witness: every request has been started, the later ones after a quota
\* pause, and two of them are in flight at once.
C3_Witness ==
  /\ Len(startLog) = MaxTasks + BurstSize
  /\ Cardinality(Running) = 2

\* C4: every request passed to queueRequest is started at most once in every
\* state and is eventually started, whatever the outcomes of the requests
\* before it (the requests of the burst are started within its step and are
\* never left waiting).
C4_StartedExactlyOnce ==
  /\ [](\A t \in Tasks : Occurrences(startLog, t) <= 1)
  /\ [](\A t \in BurstTasks : taskState[t] # "queued")
  /\ \A t \in SingleTasks :
       (taskState[t] = "queued") ~> (Occurrences(startLog, t) = 1)

\* C4 witness: a request was rejected, a later one was started after it, and
\* in the end every request has been started once and has settled, the last
\* ones after a quota pause.
C4_Witness ==
  /\ rejectSeen = 2
  /\ requestsThisSecond < BurstSize
  /\ \A t \in Tasks : taskState[t] = "settled" /\ Occurrences(startLog, t) = 1

(***************************************************************************)
(* Claims about fetchWithRetry.                                            *)
(***************************************************************************)
AllFailed == \A i \in 1 .. Len(outcomes) : outcomes[i] \in Failures

\* C5: against a target that fails on every attempt the call makes exactly
\* retries + 1 fetches and then rejects with the failure of the last one; it
\* never makes more; and an attempt that succeeds is the last one made, its
\* result being what the call resolves to.
C5_RetryCount ==
  /\ invocations <= rArgs.retries + 1
  /\ (rPc = "rejected" /\ AllFailed) =>
        /\ invocations = rArgs.retries + 1
        /\ Len(outcomes) = invocations
        /\ rResult = [kind |-> "error", attempt |-> invocations,
                      cause |-> outcomes[invocations]]
  /\ (rPc # "rejected" /\ AllFailed /\ rPc # "idle") =>
        rResult = [kind |-> "pending"]
  /\ \A i \in 1 .. Len(outcomes) :
        outcomes[i] = "ok" =>
          /\ i = invocations
          /\ rPc = "resolved"
          /\ rResult = [kind |-> "value", attempt |-> i]

\* C5 witness: the default call (3 retries) has failed four times and rejected.
C5_Witness ==
  /\ rArgs.retries = MAX_RETRIES
  /\ rPc = "rejected"
  /\ AllFailed
  /\ invocations = MAX_RETRIES + 1

\* C6: the k-th sleep is delay * 2^(k-1); the k-th sleep follows the k-th
\* attempt, which failed with retries left; and once the call has settled
\* there is one sleep fewer than attempts (none after the last attempt).
C6_Backoff ==
  /\ \A k \in 1 .. Len(sleeps) :
        /\ sleeps[k] = rArgs.delay * 2 ^ (k - 1)
        /\ k <= Len(outcomes)
        /\ outcomes[k] \in Failures
        /\ k <= rArgs.retries
  /\ rPc \in {"fetching", "sleeping"} => Len(sleeps) = Len(outcomes)
  /\ rPc \in {"resolved", "rejected"} => Len(sleeps) = Len(outcomes) - 1

\* C6 witness: the default call has slept 1000, 2000 and 4000 ms and then
\* failed for the last time.
C6_Witness ==
  /\ rArgs = [retries |-> MAX_RETRIES, delay |-> RETRY_DELAY]
  /\ sleeps = <<RETRY_DELAY, 2 * RETRY_DELAY, 4 * RETRY_DELAY>>
  /\ rPc = "rejected"

(***************************************************************************)
(* Claims about the StockCache.                                            *)
(***************************************************************************)
\* later clock values: the next step's and the last one's
LaterTimes == {now + CacheTickMs, now + MaxCacheTicks * CacheTickMs}

\* a read of one tier: r is what the read returns at time `now`, w the last
\* write of the key, key the Map key, read(m, t) the same read of Map m at t
ReadAgrees(w, r, key, read(_, _)) ==
  IF w.written /\ now - w.at <= w.ttl
  THEN r.value = w.data
  ELSE /\ r.value = Null
       /\ ~Has(r.map, key)
       /\ \A t \in LaterTimes : read(r.map, t).value = Null

\* C7: in each tier (quote by symbol, news and sentiment by symbol and range,
\* the symbol compared case-insensitively) a read at time `now` of a key last
\* written at time w returns exactly the payload of that write when
\* now - w <= ttl; otherwise it returns null and leaves no entry under the
\* key, so that every later read returns null too until the next write.
C7_ReadWithinTtl ==
  /\ \A symbol \in Symbols :
       LET Read(m, t) == get(m, symbol, t)
       IN ReadAgrees(lastWrite.quote[Fold(symbol)],
                     Read(stockCache, now), toUpperCase(symbol), Read)
  /\ \A symbol \in Symbols, range \in TimeRanges :
       LET Read(m, t) == getNews(m, symbol, range, t)
       IN ReadAgrees(lastWrite.news[<<Fold(symbol), range>>],
                     Read(newsCache, now), TierKey(symbol, range), Read)
  /\ \A symbol \in Symbols, range \in TimeRanges :
       LET Read(m, t) == getSentiment(m, symbol, range, t)
       IN ReadAgrees(lastWrite.sentiment[<<Fold(symbol), range>>],
                     Read(sentimentCache, now), TierKey(symbol, range), Read)

\* C7 witness: a quote written under "a" is read under "A" exactly at its
\* TTL and returned, while a news entry written earlier has outlived its TTL
\* and a read has removed it.
C7_Witness ==
  /\ lastWrite.quote[<<"a">>].written
  /\ now - lastWrite.quote[<<"a">>].at = lastWrite.quote[<<"a">>].ttl
  /\ get(stockCache, <<"A">>, now).value = lastWrite.quote[<<"a">>].data
  /\ \E range \in TimeRanges :
       /\ lastWrite.news[<<(<<"b">>), range>>].written
       /\ now - lastWrite.news[<<(<<"b">>), range>>].at > NEWS_TTL
       /\ ~Has(newsCache, TierKey(<<"b">>, range))

(***************************************************************************)
(* Claims about useStockData and the App handlers.                         *)
(***************************************************************************)
\* the call a step has started, as it stands after the step
Started == IF calls'[nCalls'].pc = "done" THEN finished' ELSE calls'[nCalls']

\* C8: a step of handleRefresh leaves the generic cache empty as it leaves
\* the quote, news and sentiment tiers, and the call it starts takes neither
\* its quote nor its raw news from a cache: both are asked of the network
\* (or defaulted when no client key is set).
C8_RefreshBypassesEveryCache ==
  [][(nCalls' = nCalls + 1 /\ Started.origin = "refresh") =>
       /\ DOMAIN cache' = {}
       /\ Started.quoteFrom \notin {"tier", "generic"}
       /\ Started.newsFrom # "generic"]_vars

\* what the news and sentiment tiers hold for the finished call's key
TierNews == getNews(newsCache, finished.symbol, finished.timeRange, now).value
TierSentiment ==
  getSentiment(sentimentCache, finished.symbol, finished.timeRange, now).value

C10_ThrowResetsDisplay ==
  (finished.pc = "done" /\ finished.threw) =>
    /\ stockInfo = Null
    /\ newsList = NewsList(<<>>)
    /\ sentimentData = Null
    /\ ~loading

\* C10 witness: a call threw after it had displayed its quote and the body
\* of the analysis response and had written that body to the news tier.
C10_Witness ==
  /\ finished.pc = "done"
  /\ finished.threw
  /\ finished.quoteFrom = "network"
  /\ TierNews = EmptyObject
  /\ TierSentiment = Null

\* the fixed no-news sentiment: overall 0, positive 0, negative 0, neutral 1,
\* an empty trend, no key factors and hasContent false
IsNoNewsSentiment(sentiment) ==
  /\ sentiment # Null
  /\ sentiment.overall = Ratio(0, 1)
  /\ sentiment.positive = Ratio(0, 1)
  /\ sentiment.negative = Ratio(0, 1)
  /\ sentiment.neutral = Ratio(1, 1)
  /\ sentiment.trendData = <<>>
  /\ sentiment.structuredSummary.keyFactors = <<>>
  /\ ~sentiment.structuredSummary.hasContent

\* C13: when a call has just finished whose raw news list came back empty, it
\* made no call of analyzeNewsWithGemini, the displayed news list is empty, the
\* displayed sentiment is the fixed no-news sentiment, and the news and
\* sentiment tiers hold that list and that sentiment under the call's key.
C13_EmptyNewsSkipsAnalysis ==
  (finished.pc = "done" /\ finished.path = "fresh" /\ finished.rawCount = 0) =>
    /\ finished.analysisCalls = 0
    /\ ~finished.threw
    /\ newsList = NewsList(<<>>)
    /\ IsNoNewsSentiment(sentimentData)
    /\ TierNews = newsList
    /\ TierSentiment = sentimentData

\* C13 witness: with the client key set, the company-news exchange of a call
\* answered with no article in range, and the call has just finished.
C13_Witness ==
  /\ anonKey
  /\ finished.pc = "done"
  /\ finished.newsFrom = "network"
  /\ finished.rawCount = 0
  /\ sentimentData = noNewsResult(finished.symbol)


\* call c gets past its quote in this step, or finishes in it
PassesQuote(c) ==
  /\ calls[c].pc \in {"idle", "quote"}
  /\ calls'[c].pc \in {"news", "analysis", "done"}
Finishes(c) == calls[c].pc # "done" /\ calls'[c].pc = "done"

\* C11: no call is cancelled or superseded.  Whatever calls were issued after
\* it, the step in which a call gets its quote puts that quote on display,
\* and the step in which it finishes without a throw puts its news list and
\* sentiment on display (the entries the tiers hold for its symbol and range).
C11_LastResponseWins ==
  [][\A c \in CallIds :
       /\ PassesQuote(c) =>
            /\ stockInfo' # Null
            /\ stockInfo'.symbol = calls'[c].symbol
       /\ (Finishes(c) /\ ~finished'.threw) =>
            /\ newsList' =
                 getNews(newsCache', calls'[c].symbol, calls'[c].timeRange,
                         now').value
            /\ sentimentData' =
                 getSentiment(sentimentCache', calls'[c].symbol,
                              calls'[c].timeRange, now').value]_vars

\* C11 witness: two overlapping searches for different symbols have both
\* finished, the earlier one last, and the display shows the earlier one's
\* symbol while searchQuery is the later one's.
C11_Witness ==
  /\ nCalls = 2
  /\ calls[1].pc = "done"
  /\ calls[2].pc = "done"
  /\ calls[1].symbol # calls[2].symbol
  /\ searchQuery = calls[2].symbol
  /\ finished.pc = "done"
  /\ finished.symbol = calls[1].symbol
  /\ ~finished.threw
  /\ stockInfo # Null
  /\ stockInfo.symbol = calls[1].symbol
  /\ sentimentData = AggregateNow(calls[1].symbol, newsList, calls[1].timeRange)

\* a call is waiting for a network exchange
InFlight(c) == calls[c].pc \in {"quote", "news", "analysis"}
Starts(c) == calls[c].pc = "idle" /\ calls'[c].pc # "idle"

\* C12: a call that starts and has to wait for its quote leaves loading true
\* and the displayed quote, news and sentiment cleared; a call that starts
\* leaves loading true unless it finishes in the same step; a call that
\* finishes, by whichever branch, leaves loading false; and every call that
\* waits for a network exchange eventually finishes.
C12_CallLifecycle ==
  /\ [][\A c \in CallIds :
          /\ (Starts(c) /\ calls'[c].pc = "quote") =>
               /\ loading'
               /\ stockInfo' = Null
               /\ newsList' = NewsList(<<>>)
               /\ sentimentData' = Null
          /\ (Starts(c) /\ calls'[c].pc # "done") => loading'
          /\ Finishes(c) => ~loading']_vars
  /\ \A c \in CallIds : InFlight(c) ~> (calls[c].pc = "done")

\* C12 witness: two calls have finished, the last one by a throw, and
\* loading is false.
C12_Witness ==
  /\ \A c \in CallIds : calls[c].pc = "done"
  /\ finished.pc = "done"
  /\ finished.threw
  /\ finished.path = "fresh"
  /\ ~loading

\* C19: a call of analyzeSentiment on an empty list, whatever the time range,
\* the symbol and the hour, resolves to overall 0, positive 0, negative 0,
\* neutral 1, an empty trend series, no key factors and hasContent false.
C19_EmptyListSentiment ==
  (sentimentResult # Null /\ Len(newsArg.items) = 0) =>
    IsNoNewsSentiment(sentimentResult)

\* C19 witness: the call on an empty list has resolved, for a range other
\* than 24h and after an hour has passed.
C19_Witness ==
  /\ sentimentResult # Null
  /\ Len(newsArg.items) = 0
  /\ rangeArg # Range24h
  /\ now = MS_PER_HOUR

\* the number of articles of a list whose category is one of categories
CountOf(items, categories) ==
  Cardinality({i \in DOMAIN items :
                 items[i].financialSentimentCategory \in categories})

\* the sum of the scores of a list, article by article from the first
TotalScore(items) ==
  LET total[k \in 0 .. Len(items)] ==
        IF k = 0 THEN 0 ELSE total[k - 1] + items[k].sentimentScore
  IN total[Len(items)]

\* a quotient that lies in [0, 1]
IsFraction(r) == r.den > 0 /\ 0 <= r.num /\ r.num <= r.den

\* the list [bullish 0.6, bearish -0.4]
IsExampleList(items) ==
  /\ Len(items) = 2
  /\ items[1].financialSentimentCategory = "bullish"
  /\ items[1].sentimentScore = 60
  /\ items[2].financialSentimentCategory = "bearish"
  /\ items[2].sentimentScore = -40

\* C20: a call of analyzeSentiment on a non-empty list resolves to overall =
\* the sum of the scores divided by the number of articles, and positive,
\* negative and neutral = the number of bullish, of bearish and of
\* neutral-impact or mixed articles divided by the number of articles, each
\* in [0, 1]; for [bullish 0.6, bearish -0.4] these are 0.1, 0.5, 0.5 and 0.
C20_MeanAndShares ==
  (sentimentResult # Null /\ Len(newsArg.items) > 0) =>
    LET items == newsArg.items
        n == Len(items)
    IN /\ RatioEq(sentimentResult.overall, Ratio(TotalScore(items), n))
       /\ RatioEq(sentimentResult.positive, Ratio(CountOf(items, {"bullish"}), n))
       /\ RatioEq(sentimentResult.negative, Ratio(CountOf(items, {"bearish"}), n))
       /\ RatioEq(sentimentResult.neutral,
                  Ratio(CountOf(items, {"neutral-impact", "mixed"}), n))
       /\ IsFraction(sentimentResult.positive)
       /\ IsFraction(sentimentResult.negative)
       /\ IsFraction(sentimentResult.neutral)
       /\ sentimentResult.overall.den > 0
       /\ IsExampleList(items) =>
            /\ RatioEq(sentimentResult.overall, Ratio(10, 1))
            /\ RatioEq(sentimentResult.positive, Ratio(1, 2))
            /\ RatioEq(sentimentResult.negative, Ratio(1, 2))
            /\ RatioEq(sentimentResult.neutral, Ratio(0, 1))

\* C20 witness: the call on [bullish 0.6, bearish -0.4] has resolved.
C20_Witness ==
  /\ sentimentResult # Null
  /\ IsExampleList(newsArg.items)

\* C15: for a request of n >= 1 articles served while the key is set, the
\* response is a 200 whose body has exactly n articles, the i-th carrying the
\* id of the i-th input; an article whose generateContent exchange or whose
\* parsing failed is there with neutral-impact, low and 0; and the value an
\* article's promise resolved to is never changed by another article's
\* exchange.
C15_OneResultPerArticle ==
  /\ [](edgeResponse # Null /\ geminiKey /\ Len(articlesReq.items) >= 1 =>
          /\ edgeResponse.status = 200
          /\ Len(edgeResponse.body) = Len(articlesReq.items)
          /\ \A i \in DOMAIN articlesReq.items :
               /\ edgeResponse.body[i].id = articlesReq.items[i].id
               /\ edgeResponse.body[i] = analysisPromises[i]
               /\ llmAnswers[i].kind # "object" =>
                    /\ edgeResponse.body[i].financialSentimentCategory = "neutral-impact"
                    /\ edgeResponse.body[i].relevanceToPrice = "low"
                    /\ edgeResponse.body[i].sentimentScore = 0)
  /\ [][\A i \in DOMAIN analysisPromises :
          analysisPromises[i] # Pending =>
            analysisPromises'[i] = analysisPromises[i]]_vars

\* C15 witness: of two articles with different ids the second settled first
\* and failed, the first was analysed, and the response has been returned.
C15_Witness ==
  /\ edgeResponse # Null
  /\ edgeResponse.status = 200
  /\ settleOrder = <<2, 1>>
  /\ articlesReq.items[1].id # articlesReq.items[2].id
  /\ llmAnswers[2].kind = "unparseable"
  /\ llmAnswers[1].kind = "object"
  /\ edgeResponse.body[1].financialSentimentCategory = "bullish"
  /\ edgeResponse.body[1].sentimentScore = 60

\* an analysed article as types.ts declares it
ValidArticle(article) ==
  /\ article.financialSentimentCategory \in FinancialSentimentCategories
  /\ article.relevanceToPrice \in {"high", "medium", "low"}
  /\ article.sentimentScore >= -100
  /\ article.sentimentScore <= 100

\* what analyzeNewsWithGemini resolves to for the response: the body of a 200
\* as it is, the neutral defaults after a failure
HandedToAggregator ==
  IF edgeResponse.status = 200 THEN NewsList(edgeResponse.body)
  ELSE NeutralDefaults(articlesReq)

\* C14: every analysed article that analyzeNewsWithGemini resolves to once
\* the edge function has responded has a category among bullish, bearish,
\* neutral-impact and mixed, a relevance among high, medium and low, and a
\* score within [-1, 1].
C14_ValidAnalysedArticles ==
  edgeResponse # Null =>
    \A i \in DOMAIN HandedToAggregator.items :
      ValidArticle(HandedToAggregator.items[i])

\* C16: a call of searchStocks, getStockPrice, getNewsArticles or
\* analyzeNewsWithGemini never rejects; without the client key it resolves to
\* its default having issued no request; and when the exchange it awaits has
\* failed after its retries it resolves to its default: [] for search and
\* news, the zero-valued quote named after the symbol, one neutral-impact /
\* 0 / low article per input article.
C16_NeverRejects ==
  /\ apiCall.pc # "rejected"
  /\ (apiCall.pc = "resolved" /\ ~anonKey) =>
       /\ apiCall.requests = 0
       /\ apiCall.value = ApiDefault(apiCall.fn, apiCall.symbol, apiCall.articles)
  /\ (apiCall.pc = "resolved" /\ apiCall.outcome = ApiFailed(apiCall.fn)) =>
       /\ apiCall.requests = ApiRequests(apiCall.fn)
       /\ apiCall.value = ApiDefault(apiCall.fn, apiCall.symbol, apiCall.articles)

\* C16 witness: with the key set, a call of analyzeNewsWithGemini on two
\* articles has resolved after its exchange failed.
C16_Witness ==
  /\ anonKey
  /\ apiCall.pc = "resolved"
  /\ apiCall.fn = "analyzeNewsWithGemini"
  /\ apiCall.outcome = "failed"
  /\ Len(apiCall.value.items) = 2

\* C17: a call of addToWatchlist whose symbol is in the local list it sees
\* never gets as far as the insert, in either variant, and no step of that
\* call changes the local list or the table.
C17_AddExistingIsNoOp ==
  /\ [](\A i \in OpIds :
          (ops[i].kind = "add" /\ ops[i].present) =>
            /\ ops[i].pc \in {"getUser", "done"}
            /\ ops[i].result \in {"none", "no_user", "exists"})
  /\ [][\A i \in OpIds :
          (ops'[i] # ops[i] /\ ops'[i].kind = "add" /\ ops'[i].present) =>
            /\ watchlist' = watchlist
            /\ table' = table]_vars

\* C17 witness: in variant 2 a call of addToWatchlist for a symbol of the
\* one-entry local list has returned on the exists test; list and table
\* still hold that one entry.
C17_Witness ==
  /\ hookVariant = 2
  /\ \E i \in OpIds :
       /\ ops[i].kind = "add"
       /\ ops[i].present
       /\ ops[i].result = "exists"
       /\ watchlist = <<Item(ops[i].symbol)>>
  /\ Len(table) = 1

\* C18: once the hook is mounted, the step in which the user signs out
\* leaves the local list empty, and the step in which a user signs in starts
\* a fetchWatchlist.
C18_SignOutClearsSignInFetches ==
  [][/\ (hookVariant # 0 /\ session # NoUser /\ session' = NoUser) =>
          watchlist' = <<>>
     /\ (hookVariant # 0 /\ session = NoUser /\ session' # NoUser) =>
          \E i \in OpIds : /\ ops[i].pc = "idle"
                           /\ ops'[i].kind = "fetch"
                           /\ ops'[i].pc \in {"select", "getUser"}]_vars

\* a call of analyzeSentiment for the 24h range on two articles published h
\* hours apart has resolved
TwoArticlesApart(h) ==
  /\ sentimentResult # Null
  /\ rangeArg = Range24h
  /\ Len(newsArg.items) = 2
  /\ Abs(newsArg.items[1].publishedAt - newsArg.items[2].publishedAt) = h

\* C21 as stated: for the 24h range two articles published 1 hour apart are
\* counted in one trend point, and two articles published 4 hours apart in
\* two, whatever the current time and the publication times.
C21_OneHourSameFourHoursDifferent ==
  /\ TwoArticlesApart(1) => Len(sentimentResult.trendData) = 1
  /\ TwoArticlesApart(4) => Len(sentimentResult.trendData) = 2

\* C21 as amended: for the 24h range two articles published 1 hour apart are
\* counted in one trend point or in two points whose starts are 3 hours
\* apart, and two articles published 4 hours apart are counted in two points.
C21_OneHourSameOrAdjacent ==
  /\ TwoArticlesApart(1) =>
       \/ /\ Len(sentimentResult.trendData) = 1
          /\ sentimentResult.trendData[1].articles = 2
       \/ /\ Len(sentimentResult.trendData) = 2
          /\ sentimentResult.trendData[2].time
               = sentimentResult.trendData[1].time + 3
  /\ TwoArticlesApart(4) =>
       /\ Len(sentimentResult.trendData) = 2
       /\ sentimentResult.trendData[1].time # sentimentResult.trendData[2].time

\* C21 witness: at hour 1 of the clock, two articles published 1 hour apart
\* have been counted in two trend points.
C21_Witness ==
  /\ TwoArticlesApart(1)
  /\ now = MS_PER_HOUR
  /\ Len(sentimentResult.trendData) = 2

\* the hour of the clock analyzeSentiment read
HourNow == now \div MS_PER_HOUR

\* the articles of the call's list whose period starts at time
ArticlesOfPeriod(time) ==
  SelectSeq(newsArg.items,
            LAMBDA a : PeriodStart(a, rangeArg, HourNow, UtcOffset) = time)

\* C22: the trend series of a resolved call, whatever the list and the range,
\* has strictly ascending times, one point for each period start an article
\* of the list has and no other, and each point's sentiment and articles are
\* the mean score and the number of the articles of that period.
C22_TrendOrderedAndExact ==
  sentimentResult # Null =>
    LET trend == sentimentResult.trendData
    IN /\ \A k \in 1 .. Len(trend) - 1 : trend[k].time < trend[k + 1].time
       /\ \A i \in DOMAIN newsArg.items :
            \E k \in DOMAIN trend :
              trend[k].time = PeriodStart(newsArg.items[i], rangeArg, HourNow,
                                          UtcOffset)
       /\ \A k \in DOMAIN trend :
            LET group == ArticlesOfPeriod(trend[k].time)
            IN /\ Len(group) >= 1
               /\ trend[k].articles = Len(group)
               /\ trend[k].sentiment.den > 0
               /\ RatioEq(trend[k].sentiment,
                          Ratio(TotalScore(group), Len(group)))

\* C22 witness: a call for a range other than 24h has resolved on a list
\* whose first article is the later one, and the series has two points.
C22_Witness ==
  /\ sentimentResult # Null
  /\ rangeArg # Range24h
  /\ Len(newsArg.items) = 2
  /\ newsArg.items[1].publishedAt > newsArg.items[2].publishedAt
  /\ Len(sentimentResult.trendData) = 2

\* the key factors of the resolved call, and the list it was called on
Factors == sentimentResult.structuredSummary.keyFactors
Articles == newsArg.items

\* some article of the category has a score beyond the bound, on the side of
\* sign
Qualifies(category, sign) ==
  \E i \in DOMAIN Articles :
    /\ Articles[i].financialSentimentCategory = category
    /\ sign * Articles[i].sentimentScore > 30

\* the factor is the strong driver of the category: it carries the largest
\* score, on the side of sign, of the articles of that category
IsDriver(factor, category, sign, type, prefix) ==
  /\ factor.type = type
  /\ factor.prefix = prefix
  /\ factor.id \in DOMAIN Articles
  /\ Articles[factor.id].financialSentimentCategory = category
  /\ factor.score = Articles[factor.id].sentimentScore
  /\ \A i \in DOMAIN Articles :
       Articles[i].financialSentimentCategory = category =>
         sign * Articles[i].sentimentScore <= sign * factor.score

\* the factor is a generic mention of an article whose absolute score is
\* beyond 0.1 and the largest of the articles outside of taken
IsMention(factor, prefix, taken) ==
  /\ factor.prefix = prefix
  /\ factor.id \in DOMAIN Articles \ taken
  /\ factor.score = Articles[factor.id].sentimentScore
  /\ factor.type = FactorType(Articles[factor.id])
  /\ Abs(factor.score) > 10
  /\ \A i \in DOMAIN Articles \ taken :
       Abs(Articles[i].sentimentScore) <= Abs(factor.score)

\* C23: for a non-empty list the summary has one or two key factors: the
\* top bullish article if its score is over 0.3, then the most negative
\* bearish article if its score is under -0.3; if neither, the one or two
\* articles of the largest absolute score over 0.1, as 'Key Mention:' and
\* 'Also Noted:'; and if none, the one 'Info:' placeholder.
C23_KeyFactors ==
  (sentimentResult # Null /\ Len(Articles) > 0) =>
    LET positive == Qualifies("bullish", 1)
        negative == Qualifies("bearish", -1)
        impactful == {i \in DOMAIN Articles : Abs(Articles[i].sentimentScore) > 10}
    IN /\ Len(Factors) \in {1, 2}
       /\ sentimentResult.structuredSummary.hasContent
       /\ (positive /\ negative) =>
            /\ Len(Factors) = 2
            /\ IsDriver(Factors[1], "bullish", 1, "positive", "(+)")
            /\ IsDriver(Factors[2], "bearish", -1, "negative", "(-)")
       /\ (positive /\ ~negative) =>
            /\ Len(Factors) = 1
            /\ IsDriver(Factors[1], "bullish", 1, "positive", "(+)")
       /\ (~positive /\ negative) =>
            /\ Len(Factors) = 1
            /\ IsDriver(Factors[1], "bearish", -1, "negative", "(-)")
       /\ (~positive /\ ~negative /\ impactful # {}) =>
            /\ Len(Factors) = IF Cardinality(impactful) > 1 THEN 2 ELSE 1
            /\ IsMention(Factors[1], "Key Mention:", {})
            /\ Len(Factors) = 2 =>
                 IsMention(Factors[2], "Also Noted:", {Factors[1].id})
       /\ (~positive /\ ~negative /\ impactful = {}) =>
            /\ Len(Factors) = 1
            /\ Factors[1].prefix = "Info:"
            /\ Factors[1].type = "neutral"

\* C23 witness: a call has resolved on a list without a strong driver, with
\* a 'Key Mention:' of a mixed article and an 'Also Noted:' of a bullish one.
C23_Witness ==
  /\ sentimentResult # Null
  /\ Len(Articles) = 2
  /\ Len(Factors) = 2
  /\ Factors[1].prefix = "Key Mention:"
  /\ Factors[1].type = "neutral"
  /\ Factors[2].prefix = "Also Noted:"
  /\ Factors[2].type = "positive"

\* the number of articles the points of a series count
TotalArticles(trend) ==
  LET total[k \in 0 .. Len(trend)] ==
        IF k = 0 THEN 0 ELSE total[k - 1] + trend[k].articles
  IN total[Len(trend)]

\* the trend points of the resolved call that count the article: those of
\* its period start
PointsOf(article) ==
  {k \in DOMAIN sentimentResult.trendData :
     sentimentResult.trendData[k].time
       = PeriodStart(article, rangeArg, HourNow, UtcOffset)}

\* C30: for the 24h range every article published no later than the current
\* time is counted in exactly one trend point, the points count as many
\* articles as the list has, and the article's publication time lies in
\* [time, time + 3h) of its point.
C30_ArticleInsideItsBucket ==
  (sentimentResult # Null /\ rangeArg = Range24h) =>
    /\ TotalArticles(sentimentResult.trendData) = Len(Articles)
    /\ \A i \in DOMAIN Articles :
         Articles[i].publishedAt <= HourNow =>
           /\ Cardinality(PointsOf(Articles[i])) = 1
           /\ \A k \in PointsOf(Articles[i]) :
                /\ sentimentResult.trendData[k].time <= Articles[i].publishedAt
                /\ Articles[i].publishedAt < sentimentResult.trendData[k].time + 3

\* when the market-data proxy answered with the quote a StockInfo carries
\* (QuoteBody's price moves with the clock)
ObtainedAt(stockData) == (stockData.price - 100) * 60000

\* what the fetchStockData call c is after the step: its record, taken from
\* finished when the call ended in the step
AfterStep(c) == IF calls'[c].pc = "done" THEN finished' ELSE calls'[c]

\* in the step, call c comes by its quote: from getStockPrice or as the
\* snapshot the WatchList row read from the quote tier
GetsQuote(c) ==
  /\ \/ calls[c].pc = "idle" /\ AfterStep(c).pc \notin {"idle", "quote"}
     \/ calls[c].pc = "quote" /\ AfterStep(c).pc # "quote"
  /\ AfterStep(c).quoteFrom \in {"tier", "generic", "network", "snapshot"}
  /\ stockInfo' # Null
  /\ stockInfo'.price # 0

\* fetchPrices' last getStockPrice for the symbol returned a quote of the
\* proxy (not the zero-valued default, cached or not)
ReturnedQuote(symbol) ==
  /\ priceReturned[symbol].from \in {"tier", "generic", "network"}
  /\ priceReturned[symbol].value.price # 0

\* C24: a quote of the proxy that getStockPrice returns, to fetchPrices or
\* to a fetchStockData call, or that a watchlist click reads from the quote
\* tier and passes on as the snapshot, was obtained from the proxy at most
\* STOCK_TTL (2 minutes) before.
C24_QuoteAtMostTtlOld ==
  /\ [](\A symbol \in Tickers :
          ReturnedQuote(symbol) =>
            priceReturned[symbol].at - ObtainedAt(priceReturned[symbol].value)
              <= STOCK_TTL)
  /\ [][\A c \in CallIds :
          GetsQuote(c) => now' - ObtainedAt(stockInfo') <= STOCK_TTL]_vars

\* C25: no entry of the quote tier is the zero-valued quote getStockPrice
\* synthesises after a failed exchange; and a call that has just finished
\* leaves nothing in the news and sentiment tiers under its key when its
\* news exchange failed, and not the neutral defaults of a failed analysis
\* in the news tier.
C25_TiersHoldUpstreamPayloads ==
  /\ \A key \in DOMAIN stockCache : stockCache[key].price # 0
  /\ (finished.pc = "done" /\ finished.newsFrom = "failed") =>
       /\ TierNews = Null
       /\ TierSentiment = Null
  /\ (anonKey /\ finished.pc = "done" /\ finished.analysisCalls > 0) =>
       TierNews # NeutralDefaults(finished.rawNews)

\* no fetchStockData call is waiting for a network exchange
Quiet == \A c \in CallIds : ~InFlight(c)

\* the text names the symbol
Mentions(text, symbol) ==
  \E i \in 1 .. (Len(text) - Len(symbol) + 1) :
    SubSeq(text, i, i + Len(symbol) - 1) = symbol

\* C26: whenever no call is in flight and a quote and a sentiment are on
\* display, the sentiment is one computed for the symbol of the quote, and
\* when a call has just finished without a throw the quote is that call's:
\* quote, news and sentiment come from one call.
C26_DisplayFromOneCall ==
  (Quiet /\ stockInfo # Null /\ sentimentData # Null) =>
    /\ Mentions(sentimentData.summary, stockInfo.symbol)
    /\ (finished.pc = "done" /\ ~finished.threw) =>
         stockInfo.symbol = finished.symbol

\* C27: loading is true in every state in which some call has started and
\* has not finished.
C27_LoadingWhileInFlight ==
  (\E c \in CallIds : InFlight(c)) => loading

\* C28: the local watchlist never holds two entries with the same symbol.
C28_NoDuplicateSymbols ==
  \A i, j \in DOMAIN watchlist :
    i # j => watchlist[i].symbol # watchlist[j].symbol

\* C29: the local watchlist holds only entries of the signed-in user: in
\* every state in which a mounted hook has nobody signed in and the sign-out
\* has been processed, the list is empty, whatever fetch resolves late.
C29_OnlyCurrentUsersEntries ==
  (hookVariant # 0 /\ session = NoUser) => watchlist = <<>>

====
